---- MODULE Spec2Model ----
(***************************************************************************)
(* A model of the Family-Tree application: the person graph held by App,   *)
(* the PersonModal form that edits it, the integrity helpers of the        *)
(* validation module, the date grammar, and the layered layout of          *)
(* TreeCanvas.                                                             *)
(*                                                                         *)
(* Text is modelled as a sequence of one-character strings, so that trim,  *)
(* the regular expressions and string comparison are computed character by *)
(* character.  Person ids (uuids in the program) are positive integers     *)
(* handed out in increasing order and never reused.                        *)
(***************************************************************************)
EXTENDS Integers, Sequences, FiniteSets, TLC

VARIABLES
    people,        \* App: data.people, the in-memory person list
    nextId,        \* the next unused person id (stands for uuidv4())
    modalMode,     \* App: modalMode, "none" for null
    editPersonId,  \* App: editPersonId, NoId for null
    modalContext,  \* App: modalContext
    parentIds,     \* PersonModal: the form's parentIds state
    siblingIds,    \* PersonModal: the form's siblingIds state
    errors,        \* PersonModal: the form's errors state
    textFields,    \* PersonModal: the text fields as submitted by the last click since
                   \* the form was opened
    lastMutation,  \* the last call of mutate: which handler, about which person
    dateEngine,    \* how the JavaScript engine's Date treats a day past the month's end
    cycleCheck,    \* the last call of wouldCreateCycle: its arguments and its result
    layout,        \* TreeCanvas: computeLayout(people) as last rendered
    layoutBefore,  \* the layout rendered before people was last reordered
    run,           \* a call of getDescendantIds, getAncestorIds or assignGenerations:
                   \* its local variables and how far it has got
    updatedAt,     \* App: data.updatedAt, a reading of the clock
    baselineHash,  \* App: baselineHash, the people list the last export or load held
    selectedId,    \* App: selectedId, NoId for null
    initialized,   \* App: initialized
    loading,       \* the GET /api/data of the auto-load effect is in flight
    effectPending, \* a render changed data or initialized and its auto-save effect
                   \* has not run yet
    importing,     \* the file handleImport is reading, NoImport when there is none
    validated,     \* the last call of validateFamilyData: its argument and what it gave
    downloaded,    \* the file the last export wrote, with the people list it was made of
    sent,          \* every POST the client has initiated, in the order of the fetch calls
    pending,       \* the indices in sent of the requests in flight
    failed,        \* the requests whose fetch was rejected, each with the number of
                   \* events made by then
    handled,       \* the indices in sent of the requests the server has handled
    mainFile,      \* server: data/family-tree.json, NoFile when it does not exist
    snapshots,     \* server: data/snapshots, the content under each file name
    now,           \* the clock, in ticks
    events         \* what has replaced App's data so far: mutations, the load, imports

\* the state the storage code reads and writes
storage == <<updatedAt, baselineHash, selectedId, initialized, loading, effectPending,
             importing, validated, downloaded, sent, pending, failed, handled, mainFile, snapshots, now, events>>

vars == <<people, nextId, modalMode, editPersonId, modalContext, parentIds, siblingIds,
          errors, textFields, lastMutation, dateEngine, cycleCheck, layout, layoutBefore,
          run, storage>>

\* what the handlers of the modal sessions never write
outside == <<dateEngine, cycleCheck, layout, layoutBefore, run, storage>>

----------------------------------------------------------------------------
(* Bounds of the model *)

\* persons ever created in a run of the application
MaxIds == 3

\* persons of the family tree that SpecFromTree starts from
TreePeople == 3

\* persons of the graphs given to wouldCreateCycle
MaxCyclePeople == 3

\* persons of the sets given to computeLayout
LayoutPeople == 3

\* persons of the sets with dangling parent references given to computeLayout
DanglingPeople == 3

\* persons of the families whose sibling lists are shown
SiblingPeople == 4

\* explicit sibling links (pairs) in such a family
MaxLinks == 2

\* person ids handed out while the storage is followed
MaxStoreIds == 2

\* replacements of App's data (mutations and the load) while the storage is followed
MaxEvents == 3

\* ticks of the clock in one second of the snapshot file names
TicksPerSecond == 2

\* the last tick of the clock
MaxTime == 2

\* entries of the people array of a document given to validateFamilyData
MaxDocPeople == 2

\* persons of the families that are exported and imported again
ExportPeople == 3

\* person ids handed out where the form saves through mutate
SubmitIds == 3

\* persons of the lists handleDeletePerson is applied to
DeletePeople == 3

\* persons of the lists the traversals are run on
TraversePeople == 3

----------------------------------------------------------------------------
(* Sequences as JavaScript arrays *)

Includes(s, x) == \E i \in 1..Len(s) : s[i] = x

Range(s) == {s[i] : i \in 1..Len(s)}

\* Array.prototype.filter(e => e !== x)
Without(s, x) ==
    LET keep(e) == e # x IN SelectSeq(s, keep)

NoId == 0

\* Array.prototype.findIndex(p => p.id === id), 0 for -1
findIndex(ps, id) ==
    IF \E i \in 1..Len(ps) : ps[i].id = id
    THEN CHOOSE i \in 1..Len(ps) :
            /\ ps[i].id = id
            /\ \A j \in 1..(i - 1) : ps[j].id # id
    ELSE 0

Ids(ps) == {ps[i].id : i \in 1..Len(ps)}

----------------------------------------------------------------------------
(* Text *)

Digits == {"0", "1", "2", "3", "4", "5", "6", "7", "8", "9"}

DigitVal ==
    ("0" :> 0) @@ ("1" :> 1) @@ ("2" :> 2) @@ ("3" :> 3) @@ ("4" :> 4) @@
    ("5" :> 5) @@ ("6" :> 6) @@ ("7" :> 7) @@ ("8" :> 8) @@ ("9" :> 9)

Whitespace == {" "}

\* UTF-16 code units of the characters the model uses
CharCode ==
    (" " :> 32) @@ ("-" :> 45) @@ ("/" :> 47) @@
    ("0" :> 48) @@ ("1" :> 49) @@ ("2" :> 50) @@ ("3" :> 51) @@ ("4" :> 52) @@
    ("5" :> 53) @@ ("6" :> 54) @@ ("7" :> 55) @@ ("8" :> 56) @@ ("9" :> 57) @@
    ("A" :> 65) @@ ("B" :> 66) @@ ("a" :> 97) @@ ("b" :> 98) @@ ("n" :> 110) @@
    ("o" :> 111) @@ ("x" :> 120)

RECURSIVE trimStart(_)
trimStart(s) ==
    IF s # <<>> /\ Head(s) \in Whitespace THEN trimStart(Tail(s)) ELSE s

RECURSIVE trimEnd(_)
trimEnd(s) ==
    IF s # <<>> /\ s[Len(s)] \in Whitespace
    THEN trimEnd(SubSeq(s, 1, Len(s) - 1))
    ELSE s

\* String.prototype.trim
trim(s) == trimEnd(trimStart(s))

\* /^\d+$/
AllDigits(s) == s # <<>> /\ \A i \in 1..Len(s) : s[i] \in Digits

\* /^\d{4}-\d{2}-\d{2}$/
IsoShaped(s) ==
    /\ Len(s) = 10
    /\ \A i \in {1, 2, 3, 4, 6, 7, 9, 10} : s[i] \in Digits
    /\ s[5] = "-"
    /\ s[8] = "-"

\* parseInt(s, 10) of an all-digit string
RECURSIVE parseInt(_)
parseInt(s) ==
    IF s = <<>> THEN 0
    ELSE 10 * parseInt(SubSeq(s, 1, Len(s) - 1)) + DigitVal[s[Len(s)]]

\* a < b on strings: the first differing code unit decides, a proper prefix is smaller
RECURSIVE StrLess(_, _)
StrLess(a, b) ==
    IF b = <<>> THEN FALSE
    ELSE IF a = <<>> THEN TRUE
    ELSE IF Head(a) # Head(b) THEN CharCode[Head(a)] < CharCode[Head(b)]
    ELSE StrLess(Tail(a), Tail(b))

----------------------------------------------------------------------------
(* Partial dates: PartialDate of types.ts.  NoYear and the empty text stand *)
(* for an undefined year and an undefined date; Undefined for no date.      *)

NoYear == -1

Undefined == [defined |-> FALSE, year |-> NoYear, date |-> <<>>]

YearOnly(y) == [defined |-> TRUE, year |-> y, date |-> <<>>]

FullDate(y, d) == [defined |-> TRUE, year |-> y, date |-> d]

IsLeap(y) == (y % 4 = 0 /\ y % 100 # 0) \/ y % 400 = 0

DaysInMonth(y, m) ==
    IF m = 2 THEN (IF IsLeap(y) THEN 29 ELSE 28)
    ELSE IF m \in {4, 6, 9, 11} THEN 30 ELSE 31

\* !isNaN(new Date(s + 'T00:00:00').getTime()) for s of the form NNNN-NN-NN.
\* A day from the month's length + 1 up to 31 is rejected by an engine that follows the
\* ISO format strictly and rolled over into the next month by a lenient one.
DateIsValid(s, engine) ==
    LET y == parseInt(SubSeq(s, 1, 4))
        m == parseInt(SubSeq(s, 6, 7))
        d == parseInt(SubSeq(s, 9, 10))
    IN  /\ m \in 1..12
        /\ d >= 1
        /\ \/ d <= DaysInMonth(y, m)
           \/ engine = "lenient" /\ d <= 31

NoError == [msg |-> "", text |-> <<>>]

NotAValidDate(t) == [msg |-> "is not a valid date", text |-> t]

EnterYearOrDate ==
    [msg |-> "Enter a year (e.g. 1950) or full date (e.g. 1950-03-15)", text |-> <<>>]

parseDateInput(input, engine) ==
    LET trimmed == trim(input) IN
    IF trimmed = <<>> THEN [value |-> Undefined, error |-> NoError]
    ELSE IF AllDigits(trimmed)
        THEN [value |-> YearOnly(parseInt(trimmed)), error |-> NoError]
    ELSE IF IsoShaped(trimmed)
        THEN IF ~DateIsValid(trimmed, engine)
             THEN [value |-> Undefined, error |-> NotAValidDate(trimmed)]
             ELSE [value |-> FullDate(parseInt(SubSeq(trimmed, 1, 4)), trimmed),
                   error |-> NoError]
    ELSE [value |-> Undefined, error |-> EnterYearOrDate]

\* number | null: Null stands for null
Null == 99

\* a comparison that gives up unless both sides have the same precision
comparePartialDatesSamePrecision(a, b) ==
    IF ~a.defined \/ ~b.defined THEN Null
    ELSE IF a.date # <<>> /\ b.date # <<>>
        THEN IF StrLess(a.date, b.date) THEN -1
             ELSE IF StrLess(b.date, a.date) THEN 1
             ELSE 0
    ELSE IF a.date = <<>> /\ b.date = <<>>
        THEN IF a.year < b.year THEN -1
             ELSE IF a.year > b.year THEN 1
             ELSE 0
    ELSE Null

comparePartialDates(a, b) ==
    IF ~a.defined \/ ~b.defined THEN Null
    ELSE IF a.date # <<>> /\ b.date # <<>>
        THEN IF StrLess(a.date, b.date) THEN -1
             ELSE IF StrLess(b.date, a.date) THEN 1
             ELSE 0
    ELSE IF a.year # NoYear /\ b.year # NoYear
        THEN IF a.year < b.year THEN -1
             ELSE IF a.year > b.year THEN 1
             ELSE 0
    ELSE Null

BirthAfterDeath ==
    [msg |-> "Birth date must be before or equal to death date", text |-> <<>>]

\* a validation that wants birth strictly before death
validateBirthDeathStrict(birth, death) ==
    LET cmp == comparePartialDates(birth, death) IN
    IF cmp # Null /\ cmp >= 0 THEN BirthAfterDeath ELSE NoError

\* string | null: NoError stands for null
validateBirthDeath(birth, death) ==
    LET cmp == comparePartialDates(birth, death) IN
    IF cmp # Null /\ cmp > 0 THEN BirthAfterDeath ELSE NoError

----------------------------------------------------------------------------
(* Persons: Person of types.ts.  photoDataUrl and notes are opaque payload  *)
(* that no modelled operation reads, and are left out; so is lastName,      *)
(* which is undefined for every person of the model.                        *)

Person(id, firstName, birth, death, pids, sids) ==
    [id |-> id, firstName |-> firstName, birth |-> birth, death |-> death,
     parentIds |-> pids, siblingIds |-> sids]

\* null where a Person is expected
NoPerson == Person(NoId, <<>>, Undefined, Undefined, <<>>, <<>>)

find(ps, id) == IF findIndex(ps, id) = 0 THEN NoPerson ELSE ps[findIndex(ps, id)]

----------------------------------------------------------------------------
(* Graph integrity helpers (validation module) *)

\* the for loop of getDescendantIds over people, from index i on
RECURSIVE scanChildren(_, _, _, _, _)
scanChildren(i, current, queue, descendants, ps) ==
    IF i > Len(ps) THEN [queue |-> queue, descendants |-> descendants]
    ELSE IF Includes(ps[i].parentIds, current) /\ ps[i].id \notin descendants
        THEN scanChildren(i + 1, current, Append(queue, ps[i].id),
                          descendants \cup {ps[i].id}, ps)
        ELSE scanChildren(i + 1, current, queue, descendants, ps)

\* the while loop of getDescendantIds: queue.pop() takes the last element
RECURSIVE descendantsLoop(_, _, _)
descendantsLoop(queue, descendants, ps) ==
    IF queue = <<>> THEN descendants
    ELSE LET current == queue[Len(queue)]
             r == scanChildren(1, current, SubSeq(queue, 1, Len(queue) - 1),
                               descendants, ps)
         IN  descendantsLoop(r.queue, r.descendants, ps)

getDescendantIdsDirectOnly(personId, ps) ==
    {ps[i].id : i \in {j \in 1..Len(ps) : Includes(ps[j].parentIds, personId)}}

getDescendantIds(personId, ps) == descendantsLoop(<<personId>>, {}, ps)

wouldCreateCycle(personId, candidateParentId, ps) ==
    IF personId = candidateParentId THEN TRUE
    ELSE candidateParentId \in getDescendantIds(personId, ps)

----------------------------------------------------------------------------
(* The mutation orchestrator: handleSavePerson and handleDeletePerson of App *)

\* ModalContext of PersonModal; NoId and the empty list stand for undefined
Context(linkAsParentOf, presetParentIds, linkAsSiblingOf) ==
    [linkAsParentOf |-> linkAsParentOf, presetParentIds |-> presetParentIds,
     linkAsSiblingOf |-> linkAsSiblingOf]

NoContext == Context(NoId, <<>>, NoId)

\* replace the person with the same id, or push
upsert(prev, person) ==
    LET idx == findIndex(prev, person.id) IN
    IF idx > 0 THEN [prev EXCEPT ![idx] = person] ELSE Append(prev, person)

\* the link step with the new parent put first
linkAsParentFirst(ps, person, ctx) ==
    LET targetIdx == findIndex(ps, ctx.linkAsParentOf) IN
    IF ctx.linkAsParentOf # NoId /\ targetIdx > 0
       /\ ~Includes(ps[targetIdx].parentIds, person.id)
       /\ Len(ps[targetIdx].parentIds) < 2
    THEN [ps EXCEPT ![targetIdx].parentIds = <<person.id>> \o @]
    ELSE ps

\* "Create New Parent" flow: link the saved person as parent of the target
linkAsParent(ps, person, ctx) ==
    LET targetIdx == findIndex(ps, ctx.linkAsParentOf) IN
    IF ctx.linkAsParentOf # NoId /\ targetIdx > 0
       /\ ~Includes(ps[targetIdx].parentIds, person.id)
       /\ Len(ps[targetIdx].parentIds) < 2
    THEN [ps EXCEPT ![targetIdx].parentIds = Append(@, person.id)]
    ELSE ps

\* "Add Sibling" flow: link the saved person and the target as siblings
linkAsSibling(ps, person, ctx) ==
    IF ctx.linkAsSiblingOf = NoId THEN ps
    ELSE
        LET targetIdx == findIndex(ps, ctx.linkAsSiblingOf)
            ps1 == IF targetIdx > 0 /\ ~Includes(ps[targetIdx].siblingIds, person.id)
                   THEN [ps EXCEPT ![targetIdx].siblingIds = Append(@, person.id)]
                   ELSE ps
            personIdx == findIndex(ps1, person.id)
        IN  IF personIdx > 0 /\ ~Includes(ps1[personIdx].siblingIds, ctx.linkAsSiblingOf)
            THEN [ps1 EXCEPT ![personIdx].siblingIds = Append(@, ctx.linkAsSiblingOf)]
            ELSE ps1

\* for (const sibId of current.siblingIds): add the reverse link, from index i on
RECURSIVE addReverseLinks(_, _, _, _)
addReverseLinks(i, sibs, ps, personId) ==
    IF i > Len(sibs) THEN ps
    ELSE LET sibIdx == findIndex(ps, sibs[i]) IN
         IF sibIdx > 0 /\ ~Includes(ps[sibIdx].siblingIds, personId)
         THEN addReverseLinks(i + 1, sibs,
                  [ps EXCEPT ![sibIdx].siblingIds = Append(@, personId)], personId)
         ELSE addReverseLinks(i + 1, sibs, ps, personId)

\* for (const other of newPeople): drop the reverse link of whoever is no longer listed
RECURSIVE removeStaleLinks(_, _, _, _)
removeStaleLinks(i, sibs, ps, personId) ==
    IF i > Len(ps) THEN ps
    ELSE LET other == ps[i] IN
         IF other.id # personId /\ Includes(other.siblingIds, personId)
            /\ ~Includes(sibs, other.id)
         THEN LET otherIdx == findIndex(ps, other.id) IN
              removeStaleLinks(i + 1, sibs,
                  [ps EXCEPT ![otherIdx].siblingIds = Without(@, personId)], personId)
         ELSE removeStaleLinks(i + 1, sibs, ps, personId)

\* the sync without its first loop: stale links go, no reverse link is added
syncSiblingsRemoveOnly(ps, personId) ==
    LET personIdx == findIndex(ps, personId) IN
    IF personIdx = 0 THEN ps
    ELSE removeStaleLinks(1, ps[personIdx].siblingIds, ps, personId)

syncSiblingsAddOnly(ps, personId) ==
    LET personIdx == findIndex(ps, personId) IN
    IF personIdx = 0 THEN ps
    ELSE addReverseLinks(1, ps[personIdx].siblingIds, ps, personId)

\* Sync bidirectional siblingIds
syncSiblings(ps, personId) ==
    LET personIdx == findIndex(ps, personId) IN
    IF personIdx = 0 THEN ps
    ELSE LET current == ps[personIdx] IN
         removeStaleLinks(1, current.siblingIds,
             addReverseLinks(1, current.siblingIds, ps, personId), personId)

\* the person is put into the list and no link step follows
handleSavePersonInsertOnly(prev, person, ctx) == upsert(prev, person)

\* the function handleSavePerson hands to mutate, applied to prev.people
handleSavePerson(prev, person, ctx) ==
    syncSiblings(
        linkAsSibling(linkAsParent(upsert(prev, person), person, ctx), person, ctx),
        person.id)

handleDeletePersonKeepLinks(prev, id) ==
    LET keep(p) == p.id # id IN SelectSeq(prev, keep)

RECURSIVE dropLinksToSiblingsOnly(_, _)
dropLinksToSiblingsOnly(ps, id) ==
    IF ps = <<>> THEN <<>>
    ELSE <<[Head(ps) EXCEPT !.siblingIds = Without(@, id)]>>
         \o dropLinksToSiblingsOnly(Tail(ps), id)

\* the map that filters the parent lists alone
RECURSIVE dropLinksToParentsOnly(_, _)
dropLinksToParentsOnly(ps, id) ==
    IF ps = <<>> THEN <<>>
    ELSE <<[Head(ps) EXCEPT !.parentIds = Without(@, id)]>>
         \o dropLinksToParentsOnly(Tail(ps), id)

\* .map(p => ({...p, parentIds: ..., siblingIds: ...})) of handleDeletePerson
RECURSIVE dropLinksTo(_, _)
dropLinksTo(ps, id) ==
    IF ps = <<>> THEN <<>>
    ELSE <<[Head(ps) EXCEPT !.parentIds = Without(@, id),
                            !.siblingIds = Without(@, id)]>>
         \o dropLinksTo(Tail(ps), id)

\* the function handleDeletePerson hands to mutate, applied to prev.people
handleDeletePerson(prev, id) ==
    LET keep(p) == p.id # id IN dropLinksTo(SelectSeq(prev, keep), id)

----------------------------------------------------------------------------
(* PersonModal: the form *)

\* the person prop: the edited person in edit mode, null (NoPerson) in add mode
person ==
    IF modalMode = "edit" /\ editPersonId # NoId THEN find(people, editPersonId)
    ELSE NoPerson

isEdit == person # NoPerson

\* person?.id ?? uuidv4()
personId == IF isEdit THEN person.id ELSE nextId

\* the explicit links alone
allSiblingIdsExplicitOnly == Range(siblingIds)

\* all siblings: explicit (siblingIds) + derived (shared parents)
allSiblingIds ==
    Range(siblingIds) \cup
    (IF Len(parentIds) > 0
     THEN {people[i].id : i \in {j \in 1..Len(people) :
              /\ people[j].id # personId
              /\ \E k \in 1..Len(people[j].parentIds) :
                    Includes(parentIds, people[j].parentIds[k])}}
     ELSE {})

\* ids of the persons the sibling list shows
siblings == {id \in Ids(people) : id \in allSiblingIds}

\* ids of the persons offered as parents: not self, not a descendant
availableParents ==
    {id \in Ids(people) : id # personId /\ ~wouldCreateCycle(personId, id, people)}

\* ids of the persons offered as explicit siblings
availableSiblings == {id \in Ids(people) : id # personId /\ id \notin allSiblingIds}

canAddNewParent == isEdit /\ Len(parentIds) < 2

parentToggleNoLimit(prev, id) ==
    IF Includes(prev, id) THEN Without(prev, id) ELSE Append(prev, id)

\* the updater of handleParentToggle
parentToggle(prev, id) ==
    IF Includes(prev, id) THEN Without(prev, id)
    ELSE IF Len(prev) >= 2 THEN prev
    ELSE Append(prev, id)

\* the updater of handleSiblingToggle
siblingToggle(prev, id) ==
    IF Includes(prev, id) THEN Without(prev, id) ELSE Append(prev, id)

FormError(field, e) == [field |-> field, msg |-> e.msg, text |-> e.text]

FirstNameRequired == [msg |-> "First name is required", text |-> <<>>]

\* errs without the check of the first name
buildErrorsNoName(firstName, birthInput, deathInput, engine) ==
    LET birthResult == parseDateInput(birthInput, engine)
        deathResult == parseDateInput(deathInput, engine)
        bdErr == validateBirthDeath(birthResult.value, deathResult.value)
    IN  (IF birthResult.error # NoError
         THEN <<FormError("Birth", birthResult.error)>> ELSE <<>>)
        \o (IF deathResult.error # NoError
            THEN <<FormError("Death", deathResult.error)>> ELSE <<>>)
        \o (IF birthResult.error = NoError /\ deathResult.error = NoError
               /\ bdErr # NoError
            THEN <<FormError("", bdErr)>> ELSE <<>>)

\* errs that stops at the first problem
buildErrorsFirstOnly(firstName, birthInput, deathInput, engine) ==
    LET birthResult == parseDateInput(birthInput, engine)
        deathResult == parseDateInput(deathInput, engine)
        bdErr == validateBirthDeath(birthResult.value, deathResult.value)
    IN  IF trim(firstName) = <<>> THEN <<FormError("", FirstNameRequired)>>
        ELSE IF birthResult.error # NoError
        THEN <<FormError("Birth", birthResult.error)>>
        ELSE IF deathResult.error # NoError
        THEN <<FormError("Death", deathResult.error)>>
        ELSE IF bdErr # NoError THEN <<FormError("", bdErr)>>
        ELSE <<>>

\* the errs list of buildPerson
buildErrors(firstName, birthInput, deathInput, engine) ==
    LET birthResult == parseDateInput(birthInput, engine)
        deathResult == parseDateInput(deathInput, engine)
        bdErr == validateBirthDeath(birthResult.value, deathResult.value)
    IN  (IF trim(firstName) = <<>> THEN <<FormError("", FirstNameRequired)>> ELSE <<>>)
        \o (IF birthResult.error # NoError
            THEN <<FormError("Birth", birthResult.error)>> ELSE <<>>)
        \o (IF deathResult.error # NoError
            THEN <<FormError("Death", deathResult.error)>> ELSE <<>>)
        \o (IF birthResult.error = NoError /\ deathResult.error = NoError
               /\ bdErr # NoError
            THEN <<FormError("", bdErr)>> ELSE <<>>)

\* the Person buildPerson returns when errs is empty
buildPerson(id, firstName, birthInput, deathInput, pids, sids, engine) ==
    Person(id, trim(firstName),
           parseDateInput(birthInput, engine).value,
           parseDateInput(deathInput, engine).value,
           pids, sids)

----------------------------------------------------------------------------
(* Numbers of the layout.  The layout halves, averages and weighs by 0.3    *)
(* and 0.7; the model computes with exact fractions [n, d] in lowest terms, *)
(* d > 0, and so leaves the rounding of floating point out.                 *)

Abs(a) == IF a < 0 THEN -a ELSE a

RECURSIVE Gcd(_, _)
Gcd(a, b) == IF b = 0 THEN a ELSE Gcd(b, a % b)

Rat(n, d) == LET g == Gcd(Abs(n), d) IN [n |-> n \div g, d |-> d \div g]

Num(k) == [n |-> k, d |-> 1]

Plus(a, b) == Rat(a.n * b.d + b.n * a.d, a.d * b.d)

Minus(a, b) == Rat(a.n * b.d - b.n * a.d, a.d * b.d)

\* a * (p / q)
Times(a, p, q) == Rat(a.n * p, a.d * q)

Less(a, b) == a.n * b.d < b.n * a.d

\* Math.min(...xs) and Math.max(...xs) of a non-empty list
RECURSIVE MathMin(_)
MathMin(xs) ==
    IF Len(xs) = 1 THEN xs[1]
    ELSE LET m == MathMin(Tail(xs)) IN IF Less(m, xs[1]) THEN m ELSE xs[1]

RECURSIVE MathMax(_)
MathMax(xs) ==
    IF Len(xs) = 1 THEN xs[1]
    ELSE LET m == MathMax(Tail(xs)) IN IF Less(xs[1], m) THEN m ELSE xs[1]

\* Array.prototype.filter(x => S.has(x)) for a Set or the keys of a Map
RECURSIVE KeepIn(_, _)
KeepIn(s, S) ==
    IF s = <<>> THEN <<>>
    ELSE IF Head(s) \in S THEN <<Head(s)>> \o KeepIn(Tail(s), S)
    ELSE KeepIn(Tail(s), S)

\* Array.prototype.sort with a comparator that is negative exactly on the pairs of
\* before: the sort is stable, so elements that compare equal keep their order
RECURSIVE insertSorted(_, _, _)
insertSorted(sorted, a, before) ==
    IF sorted = <<>> THEN <<a>>
    ELSE IF <<a, Head(sorted)>> \in before THEN <<a>> \o sorted
    ELSE <<Head(sorted)>> \o insertSorted(Tail(sorted), a, before)

RECURSIVE sort(_, _)
sort(s, before) ==
    IF s = <<>> THEN <<>>
    ELSE insertSorted(sort(SubSeq(s, 1, Len(s) - 1), before), s[Len(s)], before)

\* the letters of the names in collation order: the letter decides before its case
Letter ==
    ("a" :> 1) @@ ("A" :> 1) @@ ("b" :> 2) @@ ("B" :> 2) @@ ("n" :> 14) @@
    ("o" :> 15) @@ ("x" :> 24)

UpperCase == {"A", "B"}

RECURSIVE LettersLess(_, _)
LettersLess(a, b) ==
    IF b = <<>> THEN FALSE
    ELSE IF a = <<>> THEN TRUE
    ELSE IF Letter[Head(a)] # Letter[Head(b)] THEN Letter[Head(a)] < Letter[Head(b)]
    ELSE LettersLess(Tail(a), Tail(b))

\* at the first position where only the case differs, lower case comes first
RECURSIVE CaseLess(_, _)
CaseLess(a, b) ==
    IF a = <<>> \/ b = <<>> THEN FALSE
    ELSE IF Head(a) # Head(b) THEN Head(b) \in UpperCase
    ELSE CaseLess(Tail(a), Tail(b))

\* a.localeCompare(b) < 0 for names made of letters
LocaleLess(a, b) ==
    \/ LettersLess(a, b)
    \/ ~LettersLess(b, a) /\ CaseLess(a, b)

----------------------------------------------------------------------------
(* Layout algorithm (TreeCanvas).  A Map is a list of entries in insertion  *)
(* order where that order is read, and a function where it is not.          *)

NODE_W == 180
NODE_H == 80
GAP_H == 50
GAP_V == 140

has(gen, id) == \E k \in 1..Len(gen) : gen[k].id = id

get(gen, id) == (CHOOSE e \in Range(gen) : e.id = id).g

\* Map.prototype.set: an existing key keeps its place
set(gen, id, g) ==
    IF has(gen, id)
    THEN [k \in 1..Len(gen) |-> IF gen[k].id = id THEN [id |-> id, g |-> g] ELSE gen[k]]
    ELSE Append(gen, [id |-> id, g |-> g])

\* compute returns the generation and the gen map it leaves; visiting is as before
\* when it returns
RECURSIVE compute(_, _, _, _)
RECURSIVE computeParents(_, _, _, _, _, _)
compute(id, visiting, gen, ps) ==
    IF has(gen, id) THEN [g |-> get(gen, id), gen |-> gen]
    ELSE IF id \in visiting THEN [g |-> 0, gen |-> set(gen, id, 0)]
    ELSE LET parents == KeepIn(find(ps, id).parentIds, Ids(ps))
             r == computeParents(parents, 1, visiting \cup {id}, gen, ps, -1)
             g == IF Len(parents) > 0 THEN r.max + 1 ELSE 0
         IN  [g |-> g, gen |-> set(r.gen, id, g)]

\* a generation taken from the parent listed last
RECURSIVE computeParentsLast(_, _, _, _, _, _)
computeParentsLast(parents, k, visiting, gen, ps, max) ==
    IF k > Len(parents) THEN [max |-> max, gen |-> gen]
    ELSE LET r == compute(parents[k], visiting, gen, ps)
         IN  computeParentsLast(parents, k + 1, visiting, r.gen, ps, r.g)

\* Math.max(...parents.map(pid => compute(pid, visiting))), from index k on
computeParents(parents, k, visiting, gen, ps, max) ==
    IF k > Len(parents) THEN [max |-> max, gen |-> gen]
    ELSE LET r == compute(parents[k], visiting, gen, ps)
         IN  computeParents(parents, k + 1, visiting, r.gen, ps,
                            IF r.g > max THEN r.g ELSE max)

RECURSIVE assignFrom(_, _, _)
assignFrom(i, gen, ps) ==
    IF i > Len(ps) THEN gen
    ELSE assignFrom(i + 1, compute(ps[i].id, {}, gen, ps).gen, ps)

assignGenerations(ps) == assignFrom(1, <<>>, ps)

\* Map.prototype.set on xPos
put(xPos, id, x) == [k \in DOMAIN xPos \cup {id} |-> IF k = id THEN x ELSE xPos[k]]

RECURSIVE Sum(_)
Sum(xs) == IF xs = <<>> THEN Num(0) ELSE Plus(Head(xs), Sum(Tail(xs)))

\* xPos.get over a list of ids
xsOf(ids, xPos) == [k \in 1..Len(ids) |-> xPos[ids[k]]]

avgX(ids, xPos) ==
    LET valid == KeepIn(ids, DOMAIN xPos) IN
    IF Len(valid) = 0 THEN Num(0)
    ELSE Times(Sum(xsOf(valid, xPos)), 1, Len(valid))

minDist == NODE_W + GAP_H

\* a layout that leaves the nodes where the passes put them
resolveOverlapsOff(group, xPos) == xPos

\* the for loop of resolveOverlaps, from index i on (indices from 1)
RECURSIVE pushRight(_, _, _)
pushRight(sorted, i, xPos) ==
    IF i > Len(sorted) THEN xPos
    ELSE LET prevX == xPos[sorted[i - 1]]
             currX == xPos[sorted[i]]
         IN  IF Less(Minus(currX, prevX), Num(minDist))
             THEN pushRight(sorted, i + 1, put(xPos, sorted[i], Plus(prevX, Num(minDist))))
             ELSE pushRight(sorted, i + 1, xPos)

\* returns xPos as resolveOverlaps leaves it
resolveOverlaps(group, xPos) ==
    IF Len(group) <= 1 THEN xPos
    ELSE pushRight(sort(group, {ab \in Range(group) \X Range(group) :
                                    Less(xPos[ab[1]], xPos[ab[2]])}),
                   2, xPos)

\* returns xPos as centerGroup leaves it
centerGroup(group, xPos) ==
    IF Len(group) = 0 THEN xPos
    ELSE LET xs == xsOf(group, xPos)
             mid == Times(Plus(MathMin(xs), MathMax(xs)), 1, 2)
         IN  [id \in DOMAIN xPos |->
                 IF Includes(group, id) THEN Minus(xPos[id], mid) ELSE xPos[id]]

\* childrenOf.get(id) ?? [], built from index i of people on: a child is pushed once
\* for every entry of its parentIds that is id
RECURSIVE childrenFrom(_, _, _)
childrenFrom(i, ps, id) ==
    IF i > Len(ps) THEN <<>>
    ELSE [k \in 1..Len(KeepIn(ps[i].parentIds, {id} \cap Ids(ps))) |-> ps[i].id]
         \o childrenFrom(i + 1, ps, id)

childrenOf(ps, id) == childrenFrom(1, ps, id)

\* the keys of groups in ascending order
RECURSIVE ascending(_)
ascending(S) ==
    IF S = {} THEN <<>>
    ELSE LET m == CHOOSE a \in S : \A b \in S : a <= b
         IN  <<m>> \o ascending(S \ {m})

\* the ids of gens with generation g, in the order of gens
RECURSIVE groupOf(_, _)
groupOf(gens, g) ==
    IF gens = <<>> THEN <<>>
    ELSE (IF Head(gens).g = g THEN <<Head(gens).id>> ELSE <<>>) \o groupOf(Tail(gens), g)

groupsOf(gens) == [g \in {gens[k].g : k \in 1..Len(gens)} |-> groupOf(gens, g)]

\* `${firstName}${lastName ?? ''}` of a person without a last name
sortName(p) == p.firstName

\* the comparator of pass 1 is negative
pass1Before(a, b, xPos, ps) ==
    LET xA == avgX(KeepIn(find(ps, a).parentIds, Ids(ps)), xPos)
        xB == avgX(KeepIn(find(ps, b).parentIds, Ids(ps)), xPos)
    IN  IF xA # xB THEN Less(xA, xB)
        ELSE LocaleLess(sortName(find(ps, a)), sortName(find(ps, b)))

RECURSIVE spread(_, _, _)
spread(group, i, xPos) ==
    IF i > Len(group) THEN xPos
    ELSE spread(group, i + 1, put(xPos, group[i], Num((i - 1) * (NODE_W + GAP_H))))

\* pass 1 over the layers keys[k..]: st holds xPos and groups
RECURSIVE pass1(_, _, _, _)
pass1(keys, k, st, ps) ==
    IF k > Len(keys) THEN st
    ELSE LET group == st.groups[keys[k]]
             sorted == sort(group, {ab \in Range(group) \X Range(group) :
                                       pass1Before(ab[1], ab[2], st.xPos, ps)})
         IN  pass1(keys, k + 1,
                   [xPos |-> centerGroup(sorted, spread(sorted, 1, st.xPos)),
                    groups |-> [st.groups EXCEPT ![keys[k]] = sorted]],
                   ps)

RECURSIVE centerOverChildren(_, _, _, _)
centerOverChildren(group, i, xPos, ps) ==
    IF i > Len(group) THEN xPos
    ELSE LET ch == KeepIn(childrenOf(ps, group[i]), DOMAIN xPos)
             childXs == xsOf(ch, xPos)
         IN  centerOverChildren(group, i + 1,
                 IF Len(ch) > 0
                 THEN put(xPos, group[i],
                          Times(Plus(MathMin(childXs), MathMax(childXs)), 1, 2))
                 ELSE xPos,
                 ps)

\* pass 2 over the layers keys[k], keys[k-1], ..
RECURSIVE pass2(_, _, _, _, _)
pass2(keys, k, groups, xPos, ps) ==
    IF k < 1 THEN xPos
    ELSE pass2(keys, k - 1, groups,
               resolveOverlaps(groups[keys[k]],
                               centerOverChildren(groups[keys[k]], 1, xPos, ps)),
               ps)

\* a pass 3 that puts every child at the average of its parents
RECURSIVE pullToParentsFully(_, _, _, _)
pullToParentsFully(group, i, xPos, ps) ==
    IF i > Len(group) THEN xPos
    ELSE LET validParents == KeepIn(find(ps, group[i]).parentIds, DOMAIN xPos)
         IN  pullToParentsFully(group, i + 1,
                 IF Len(validParents) > 0
                 THEN put(xPos, group[i], avgX(validParents, xPos))
                 ELSE xPos,
                 ps)

RECURSIVE pullToParents(_, _, _, _)
pullToParents(group, i, xPos, ps) ==
    IF i > Len(group) THEN xPos
    ELSE LET validParents == KeepIn(find(ps, group[i]).parentIds, DOMAIN xPos)
             parentAvg == avgX(validParents, xPos)
             curr == xPos[group[i]]
         IN  pullToParents(group, i + 1,
                 IF Len(validParents) > 0
                 THEN put(xPos, group[i],
                          Plus(Times(curr, 3, 10), Times(parentAvg, 7, 10)))
                 ELSE xPos,
                 ps)

\* pass 3 over the layers keys[k..]
RECURSIVE pass3(_, _, _, _, _)
pass3(keys, k, groups, xPos, ps) ==
    IF k > Len(keys) THEN xPos
    ELSE pass3(keys, k + 1, groups,
               resolveOverlaps(groups[keys[k]],
                               pullToParents(groups[keys[k]], 1, xPos, ps)),
               ps)

\* an edge for every entry of parentIds, present or not
RECURSIVE edgesFromAll(_, _)
edgesFromAll(i, ps) ==
    IF i > Len(ps) THEN <<>>
    ELSE [k \in 1..Len(ps[i].parentIds) |->
             [source |-> ps[i].parentIds[k], target |-> ps[i].id]]
         \o edgesFromAll(i + 1, ps)

RECURSIVE edgesFrom(_, _)
edgesFrom(i, ps) ==
    IF i > Len(ps) THEN <<>>
    ELSE LET pids == KeepIn(ps[i].parentIds, Ids(ps))
         IN  [k \in 1..Len(pids) |-> [source |-> pids[k], target |-> ps[i].id]]
             \o edgesFrom(i + 1, ps)

computeLayout(ps) ==
    IF Len(ps) = 0 THEN [positions |-> <<>>, edges |-> <<>>]
    ELSE LET gens == assignGenerations(ps)
             layerKeys == ascending(DOMAIN groupsOf(gens))
             p1 == pass1(layerKeys, 1, [xPos |-> <<>>, groups |-> groupsOf(gens)], ps)
             p2 == pass2(layerKeys, Len(layerKeys), p1.groups, p1.xPos, ps)
             xPos == pass3(layerKeys, 1, p1.groups, p2, ps)
         IN  [positions |-> [id \in DOMAIN xPos |->
                                [x |-> xPos[id], y |-> get(gens, id) * GAP_V]],
              edges |-> edgesFrom(1, ps)]

----------------------------------------------------------------------------
(* The application: App and the PersonModal it renders *)

Text(firstName, birthInput, deathInput) ==
    [firstName |-> firstName, birthInput |-> birthInput, deathInput |-> deathInput]

\* what the user has typed into the form's text fields when a button is clicked
FormInputs ==
    {Text(<<"A", "n", "n">>, <<>>, <<>>), Text(<<" ">>, <<>>, <<>>)}

\* no submit button has been clicked since the form was opened
NoText == Text(<<>>, <<>>, <<>>)

CycleCheck(called, x, y, result) ==
    [called |-> called, personId |-> x, candidateParentId |-> y, result |-> result]

NoCycleCheck == CycleCheck(FALSE, NoId, NoId, FALSE)

\* the local variables of a call: the queue and the set of getDescendantIds and
\* getAncestorIds; the index of the for loop, the gen map, the visiting set of the
\* compute call at the bottom and the frames of the calls of compute that have not
\* returned of assignGenerations.  detected holds the ids compute has met in visiting.
Run(fn, done, queue, found, next, gen, visiting, stack, detected) ==
    [fn |-> fn, done |-> done, queue |-> queue, found |-> found, next |-> next,
     gen |-> gen, visiting |-> visiting, stack |-> stack, detected |-> detected]

\* no call has been made
NoRun == Run("none", FALSE, <<>>, {}, 0, <<>>, {}, <<>>, {})

\* no layout has been computed
NoLayout == [rendered |-> FALSE, positions |-> <<>>, edges |-> <<>>]

\* the layout of the useMemo of TreeCanvas for the people it was given
Rendered(ps) ==
    LET l == computeLayout(ps)
    IN  [rendered |-> TRUE, positions |-> l.positions, edges |-> l.edges]

Mutation(name, id, referenced) == [name |-> name, id |-> id, referenced |-> referenced]

\* some remaining person lists id as a parent or as a sibling
Referenced(ps, id) ==
    \E i \in 1..Len(ps) :
        /\ ps[i].id # id
        /\ (Includes(ps[i].parentIds, id) \/ Includes(ps[i].siblingIds, id))

\* the modal is closed and nothing has been submitted
ModalIdle ==
    /\ modalMode = "none"
    /\ editPersonId = NoId
    /\ modalContext = NoContext
    /\ parentIds = <<>>
    /\ siblingIds = <<>>
    /\ errors = <<>>
    /\ textFields = NoText
    /\ lastMutation = Mutation("none", NoId, FALSE)

\* emptyData() and no modal
AppInit ==
    /\ people = <<>>
    /\ nextId = 1
    /\ ModalIdle

\* FamilyData
FamilyData(version, at, ps) == [version |-> version, updatedAt |-> at, people |-> ps]

\* where a document is expected and there is none: no file, null
NoData == FamilyData(0, 0, <<>>)

\* JSON values, each with its JavaScript type before what it holds; a string holds its
\* characters, and the id of person 1 is the string "1"
Str(v) == <<"string", v>>
Numb(n) == <<"number", n>>
Arr(items) == <<"array", items>>
Obj(fields) == <<"object", fields>>
JNull == <<"null", 0>>
JUndefined == <<"undefined", 0>>

\* a file the user picks: text that JSON.parse takes or rejects
File(parsable, value) == [picked |-> TRUE, parsable |-> parsable, value |-> value]

\* no file is being imported
NoImport == [picked |-> FALSE, parsable |-> FALSE, value |-> JNull]

\* a call of validateFamilyData
Validation(called, input, ok, output) ==
    [called |-> called, input |-> input, ok |-> ok, output |-> output]

NoValidation == Validation(FALSE, JNull, FALSE, JNull)

\* a file exportToFile has written, and the people list it was made of
Download(file, ps) == [file |-> file, people |-> ps]

NoDownload == Download(NoImport, <<>>)

\* the storage code is left out: the application is taken after its auto-load found no
\* file, and what it posts is not followed
StorageIdle ==
    /\ updatedAt = 0
    /\ baselineHash = <<>>
    /\ selectedId = NoId
    /\ initialized = TRUE
    /\ loading = FALSE
    /\ effectPending = FALSE
    /\ importing = NoImport
    /\ validated = NoValidation
    /\ downloaded = NoDownload
    /\ sent = <<>>
    /\ pending = {}
    /\ failed = {}
    /\ handled = {}
    /\ mainFile = NoData
    /\ snapshots = <<>>
    /\ now = 0
    /\ events = <<>>

\* nothing has been checked or rendered
OutsideIdle ==
    /\ cycleCheck = NoCycleCheck
    /\ layout = NoLayout
    /\ layoutBefore = NoLayout
    /\ run = NoRun
    /\ StorageIdle

\* the modal is unmounted; its state is gone
ModalClosed ==
    /\ modalMode' = "none"
    /\ editPersonId' = NoId
    /\ modalContext' = NoContext
    /\ parentIds' = <<>>
    /\ siblingIds' = <<>>
    /\ errors' = <<>>

\* "+ Add Person" of the sidebar; limit bounds the ids the model hands out
OpenAddModal(limit) ==
    /\ modalMode = "none"
    /\ nextId <= limit
    /\ modalMode' = "add"
    /\ editPersonId' = NoId
    /\ modalContext' = NoContext
    /\ parentIds' = <<>>
    /\ siblingIds' = <<>>
    /\ errors' = <<>>
    /\ textFields' = NoText
    /\ UNCHANGED <<people, nextId, lastMutation, outside>>

\* a click on a node of the canvas
OpenEditModal(id) ==
    /\ modalMode = "none"
    /\ id \in Ids(people)
    /\ modalMode' = "edit"
    /\ editPersonId' = id
    /\ modalContext' = NoContext
    /\ parentIds' = find(people, id).parentIds
    /\ siblingIds' = find(people, id).siblingIds
    /\ errors' = <<>>
    /\ textFields' = NoText
    /\ UNCHANGED <<people, nextId, lastMutation, outside>>

CloseModal ==
    /\ modalMode # "none"
    /\ ModalClosed
    /\ textFields' = NoText
    /\ UNCHANGED <<people, nextId, lastMutation, outside>>

HandleParentToggleNoLimit(id) ==
    /\ modalMode # "none"
    /\ id \in availableParents
    /\ parentIds' = parentToggleNoLimit(parentIds, id)
    /\ UNCHANGED <<people, nextId, modalMode, editPersonId, modalContext,
                   siblingIds, errors, textFields, lastMutation, outside>>

\* a checkbox of the parent list; a third one is disabled
HandleParentToggle(id) ==
    /\ modalMode # "none"
    /\ id \in availableParents
    /\ Includes(parentIds, id) \/ Len(parentIds) < 2
    /\ parentIds' = parentToggle(parentIds, id)
    /\ UNCHANGED <<people, nextId, modalMode, editPersonId, modalContext,
                   siblingIds, errors, textFields, lastMutation, outside>>

\* a checkbox of "Link existing person as sibling"
HandleSiblingToggle(id) ==
    /\ modalMode # "none"
    /\ id \in availableSiblings
    /\ siblingIds' = siblingToggle(siblingIds, id)
    /\ UNCHANGED <<people, nextId, modalMode, editPersonId, modalContext,
                   parentIds, errors, textFields, lastMutation, outside>>

\* the remove button of an explicitly linked sibling
HandleRemoveExplicitSibling(id) ==
    /\ modalMode # "none"
    /\ id \in siblings
    /\ Includes(siblingIds, id)
    /\ siblingIds' = Without(siblingIds, id)
    /\ UNCHANGED <<people, nextId, modalMode, editPersonId, modalContext,
                   parentIds, errors, textFields, lastMutation, outside>>

\* buildPerson returns null: the errors are shown and nothing else happens
SubmitRejected(input) ==
    /\ buildErrors(input.firstName, input.birthInput, input.deathInput, dateEngine) # <<>>
    /\ errors' = buildErrors(input.firstName, input.birthInput, input.deathInput,
                             dateEngine)
    /\ textFields' = input
    /\ UNCHANGED <<people, nextId, modalMode, editPersonId, modalContext,
                   parentIds, siblingIds, lastMutation, outside>>

\* buildPerson returns the person and onSave hands it to handleSavePerson
SubmitSaved(input, name) ==
    /\ buildErrors(input.firstName, input.birthInput, input.deathInput, dateEngine) = <<>>
    /\ people' = handleSavePerson(people,
                    buildPerson(personId, input.firstName, input.birthInput,
                                input.deathInput, parentIds, siblingIds, dateEngine),
                    modalContext)
    /\ nextId' = IF personId = nextId THEN nextId + 1 ELSE nextId
    /\ textFields' = input
    /\ lastMutation' = Mutation(name, NoId, FALSE)
    /\ UNCHANGED outside

\* the "Save" button
HandleSave(input) ==
    /\ modalMode # "none"
    /\ \/ SubmitRejected(input)
       \/ /\ SubmitSaved(input, "save")
          /\ ModalClosed

\* The compound buttons save the edited person and open an add form in the same event.
\* PersonModal is rendered without a key, so whether its state is initialised again
\* for the add form depends on whether the component is mounted again: with remount
\* the form starts from the context's preset, without it the form keeps its fields.
FollowUpForm(ctx, remount) ==
    /\ modalMode' = "add"
    /\ editPersonId' = NoId
    /\ modalContext' = ctx
    /\ IF remount
       THEN /\ parentIds' = ctx.presetParentIds
            /\ siblingIds' = <<>>
            /\ errors' = <<>>
       ELSE UNCHANGED <<parentIds, siblingIds, errors>>

\* "+ Create New Parent"
HandleCreateParent(input, remount, limit) ==
    /\ canAddNewParent
    /\ nextId <= limit
    /\ \/ SubmitRejected(input)
       \/ /\ SubmitSaved(input, "save")
          /\ FollowUpForm(Context(personId, <<>>, NoId), remount)

\* "+ Add Child"
HandleAddChild(input, remount, limit) ==
    /\ isEdit
    /\ nextId <= limit
    /\ \/ SubmitRejected(input)
       \/ /\ SubmitSaved(input, "save")
          /\ FollowUpForm(Context(NoId, <<personId>>, NoId), remount)

\* "+ Add Sibling": App's handleAddSibling reads the person from the data.people of
\* the render in which the button was clicked, that is, as it was before this save
HandleAddSibling(input, remount, limit) ==
    /\ isEdit
    /\ nextId <= limit
    /\ \/ SubmitRejected(input)
       \/ /\ SubmitSaved(input, "save")
          /\ FollowUpForm(Context(NoId, find(people, personId).parentIds, personId),
                          remount)

\* the "Delete" button of the edit form
HandleDelete ==
    /\ isEdit
    /\ people' = handleDeletePerson(people, personId)
    /\ lastMutation' = Mutation("delete", personId, Referenced(people, personId))
    /\ ModalClosed
    /\ UNCHANGED <<nextId, textFields, outside>>

AppNext(limit) ==
    \/ OpenAddModal(limit)
    \/ \E id \in 1..limit : OpenEditModal(id)
    \/ CloseModal
    \/ \E id \in 1..limit : HandleParentToggle(id)
    \/ \E id \in 1..limit : HandleSiblingToggle(id)
    \/ \E id \in 1..limit : HandleRemoveExplicitSibling(id)
    \/ \E input \in FormInputs : HandleSave(input)
    \/ \E input \in FormInputs, remount \in BOOLEAN :
          HandleCreateParent(input, remount, limit)
    \/ \E input \in FormInputs, remount \in BOOLEAN :
          HandleAddChild(input, remount, limit)
    \/ \E input \in FormInputs, remount \in BOOLEAN :
          HandleAddSibling(input, remount, limit)
    \/ HandleDelete

\* The application from its start with the empty graph.  No date is typed, so the
\* date engine plays no part.
Init ==
    /\ AppInit
    /\ OutsideIdle
    /\ dateEngine = "strict"

Next == AppNext(MaxIds)

Spec == Init /\ [][Next]_vars

----------------------------------------------------------------------------
(* Graph properties, stated without the program's own traversals *)

ParentsOf(ps, id) == Range(find(ps, id).parentIds)

RECURSIVE ParentClosure(_, _)
ParentClosure(ps, S) ==
    LET T == S \cup UNION {ParentsOf(ps, a) : a \in S} IN
    IF T = S THEN S ELSE ParentClosure(ps, T)

\* the ids reached from id by following parentIds one or more steps
AncestorsOf(ps, id) == ParentClosure(ps, ParentsOf(ps, id))

Acyclic(ps) == \A id \in Ids(ps) : id \notin AncestorsOf(ps, id)

Symmetric(ps) ==
    \A i, j \in 1..Len(ps) :
        Includes(ps[i].siblingIds, ps[j].id) <=> Includes(ps[j].siblingIds, ps[i].id)

AtMostTwoParents(ps) == \A i \in 1..Len(ps) : Len(ps[i].parentIds) <= 2

ParentsWellFormed(ps) ==
    \A i \in 1..Len(ps) :
        LET pids == ps[i].parentIds IN
        /\ \A k \in 1..Len(pids) : pids[k] \in Ids(ps) /\ pids[k] # ps[i].id
        /\ \A k, l \in 1..Len(pids) : k # l => pids[k] # pids[l]

----------------------------------------------------------------------------
(* The application started on a family tree that is already there: every   *)
(* acyclic parent graph over TreePeople persons, no explicit sibling links, *)
(* and one more person to come.  One modal session is explored from each.   *)

\* the parent lists a person can have: up to two distinct others, in either order
ParentLists(ids) ==
    {<<>>} \cup {<<a>> : a \in ids}
           \cup {s \in ids \X ids : s[1] # s[2]}

Ann == <<"A", "n", "n">>

TreeOf(f) ==
    [i \in 1..TreePeople |-> Person(i, Ann, Undefined, Undefined, f[i], <<>>)]

Trees ==
    {TreeOf(f) : f \in {g \in [1..TreePeople -> ParentLists(1..TreePeople)] :
                          /\ \A i \in 1..TreePeople : ~Includes(g[i], i)
                          /\ Acyclic(TreeOf(g))}}

InitFromTree ==
    /\ people \in Trees
    /\ nextId = TreePeople + 1
    /\ ModalIdle
    /\ OutsideIdle
    /\ dateEngine = "strict"

\* no mutation has been made yet
FirstSession == lastMutation.name = "none"

\* The explicit sibling links are left alone: no handler reads siblingIds to compute
\* a parentIds list.
NextFromTree ==
    \/ FirstSession /\ OpenAddModal(TreePeople + 1)
    \/ FirstSession /\ \E id \in 1..TreePeople : OpenEditModal(id)
    \/ CloseModal
    \/ \E id \in 1..TreePeople : HandleParentToggle(id)
    \/ \E input \in FormInputs : HandleSave(input)
    \/ \E input \in FormInputs, remount \in BOOLEAN :
          HandleCreateParent(input, remount, TreePeople + 1)
    \/ \E input \in FormInputs, remount \in BOOLEAN :
          HandleAddChild(input, remount, TreePeople + 1)
    \/ \E input \in FormInputs, remount \in BOOLEAN :
          HandleAddSibling(input, remount, TreePeople + 1)
    \/ HandleDelete

SpecFromTree == InitFromTree /\ [][NextFromTree]_vars

----------------------------------------------------------------------------
(* wouldCreateCycle on arbitrary graphs: up to MaxCyclePeople persons whose *)
(* parent lists are drawn freely from the ids 1..MaxCyclePeople, so a graph *)
(* may hold cycles, self-parents and ids of persons that are not there.     *)
(* The helpers only ask whether a parentIds list includes an id, so each    *)
(* list is taken in ascending order.                                        *)

AscendingParentLists(ids) ==
    {s \in ParentLists(ids) : Len(s) = 2 => s[1] < s[2]}

GraphOf(n, f) ==
    [i \in 1..n |-> Person(i, Ann, Undefined, Undefined, f[i], <<>>)]

Graphs ==
    UNION {{GraphOf(n, f) : f \in [1..n -> AscendingParentLists(1..MaxCyclePeople)]} :
              n \in 0..MaxCyclePeople}

InitCycle ==
    /\ people \in Graphs
    /\ nextId = MaxCyclePeople + 1
    /\ ModalIdle
    /\ OutsideIdle
    /\ dateEngine = "strict"

WouldCreateCycle(x, y) ==
    /\ cycleCheck' = CycleCheck(TRUE, x, y, wouldCreateCycle(x, y, people))
    /\ UNCHANGED <<people, nextId, modalMode, editPersonId, modalContext, parentIds,
                   siblingIds, errors, textFields, lastMutation, dateEngine,
                   layout, layoutBefore, run, storage>>

NextCycle == \E x, y \in 1..MaxCyclePeople : WouldCreateCycle(x, y)

SpecCycle == InitCycle /\ [][NextCycle]_vars

----------------------------------------------------------------------------
(* The form with dates typed into it: in one modal session a person is     *)
(* added, or the person already there is edited, with birth and death texts *)
(* of every kind the grammar distinguishes, under either behaviour of the   *)
(* engine's Date.                                                           *)

DateTexts ==
    { <<>>,
      <<"1", "9", "4", "9">>,
      <<" ", "1", "9", "5", "0">>,
      <<"1", "9", "4", "9", "-", "0", "1", "-", "0", "1">>,
      <<"1", "9", "5", "0", "-", "0", "5", "-", "0", "1">>,
      <<"1", "9", "5", "0", "-", "0", "6", "-", "0", "1">>,
      <<"1", "9", "5", "0", "-", "0", "2", "-", "3", "0">>,
      <<"1", "9", "5", "0", "-", "1", "3", "-", "0", "1">>,
      <<"1", "9", "5", "x">> }

DatedInputs ==
    {Text(n, b, d) : n \in {Ann, <<" ">>}, b \in DateTexts, d \in DateTexts}

InitForm ==
    /\ people \in {<<>>, <<Person(1, Ann, Undefined, Undefined, <<>>, <<>>)>>}
    /\ nextId = Len(people) + 1
    /\ ModalIdle
    /\ OutsideIdle
    /\ dateEngine \in {"strict", "lenient"}

NextForm ==
    \/ FirstSession /\ OpenAddModal(MaxIds)
    \/ FirstSession /\ OpenEditModal(1)
    \/ CloseModal
    \/ \E input \in DatedInputs : HandleSave(input)

SpecForm == InitForm /\ [][NextForm]_vars

\* the values parseDateInput produces for the submitted texts
Birth == parseDateInput(textFields.birthInput, dateEngine)

Death == parseDateInput(textFields.deathInput, dateEngine)

BothParsed == Birth.error = NoError /\ Death.error = NoError

IsYearOnly(d) == d.defined /\ d.date = <<>>

IsFullDate(d) == d.defined /\ d.date # <<>>

MixedPrecision ==
    /\ BothParsed
    /\ \/ IsYearOnly(Birth.value) /\ IsFullDate(Death.value)
       \/ IsFullDate(Birth.value) /\ IsYearOnly(Death.value)

NamePresent == trim(textFields.firstName) # <<>>

OrderingErrorShown ==
    \E k \in 1..Len(errors) : errors[k] = FormError("", BirthAfterDeath)

\* the last click saved a person with the submitted name and dates
SaveAccepted ==
    /\ modalMode = "none"
    /\ errors = <<>>
    /\ lastMutation.name = "save"
    /\ \E i \in 1..Len(people) :
          /\ people[i].firstName = trim(textFields.firstName)
          /\ people[i].birth = Birth.value
          /\ people[i].death = Death.value

\* a text of the form NNNN-NN-NN that names a day of the calendar
RealDate(t) ==
    /\ parseInt(SubSeq(t, 6, 7)) \in 1..12
    /\ parseInt(SubSeq(t, 9, 10)) \in
          1..DaysInMonth(parseInt(SubSeq(t, 1, 4)), parseInt(SubSeq(t, 6, 7)))

\* what the grammar of the date field makes of a text: r is the result of the parse
FollowsGrammar(text, r) ==
    LET t == trim(text) IN
    IF t = <<>> THEN r.value = Undefined /\ r.error = NoError
    ELSE IF AllDigits(t) THEN r.value = YearOnly(parseInt(t)) /\ r.error = NoError
    ELSE IF IsoShaped(t) /\ RealDate(t)
        THEN r.value = FullDate(parseInt(SubSeq(t, 1, 4)), t) /\ r.error = NoError
    ELSE r.value = Undefined /\ r.error # NoError

\* year, month and day of a YYYY-MM-DD text, as typed
Ymd(date) ==
    <<parseInt(SubSeq(date, 1, 4)), parseInt(SubSeq(date, 6, 7)),
      parseInt(SubSeq(date, 9, 10))>>

Later(a, b) ==
    \/ a[1] > b[1]
    \/ a[1] = b[1] /\ a[2] > b[2]
    \/ a[1] = b[1] /\ a[2] = b[2] /\ a[3] > b[3]

----------------------------------------------------------------------------
(* The canvas: computeLayout on every acyclic person set of up to           *)
(* LayoutPeople persons named Ann or Bob, in every order of the people      *)
(* list.  Parents have lower ids than their children, which loses no graph  *)
(* shape because the layout reads ids only for identity.                    *)

Bob == <<"B", "o", "b">>

LayoutSetOf(n, names, f) ==
    [i \in 1..n |-> Person(i, names[i], Undefined, Undefined, f[i], <<>>)]

LayoutSets ==
    UNION {{LayoutSetOf(n, names, f) :
               names \in [1..n -> {Ann, Bob}],
               f \in {g \in [1..n -> ParentLists(1..n)] :
                         \A i \in 1..n : Range(g[i]) \subseteq 1..(i - 1)}} :
           n \in 0..LayoutPeople}

\* the list with the elements at i and i + 1 exchanged
swap(ps, i) ==
    [k \in 1..Len(ps) |-> IF k = i THEN ps[i + 1] ELSE IF k = i + 1 THEN ps[i] ELSE ps[k]]

InitLayout ==
    /\ people \in LayoutSets
    /\ nextId = LayoutPeople + 1
    /\ ModalIdle
    /\ OutsideIdle
    /\ dateEngine = "strict"

\* TreeCanvas renders the people it is given
Render ==
    /\ ~layout.rendered
    /\ layout' = Rendered(people)
    /\ UNCHANGED <<people, nextId, modalMode, editPersonId, modalContext, parentIds,
                   siblingIds, errors, textFields, lastMutation, dateEngine,
                   cycleCheck, layoutBefore, run, storage>>

\* the same persons arrive in another order and the canvas renders them again
Reorder(i) ==
    /\ layout.rendered
    /\ i < Len(people)
    /\ people' = swap(people, i)
    /\ layoutBefore' = layout
    /\ layout' = Rendered(people')
    /\ UNCHANGED <<nextId, modalMode, editPersonId, modalContext, parentIds,
                   siblingIds, errors, textFields, lastMutation, dateEngine, cycleCheck,
                   run, storage>>

NextLayout ==
    \/ Render
    \/ \E i \in 1..LayoutPeople : Reorder(i)

SpecLayout == InitLayout /\ [][NextLayout]_vars

----------------------------------------------------------------------------
(* The canvas on person sets with dangling references: every acyclic set of *)
(* up to DanglingPeople persons whose parentIds may also name MissingId,    *)
(* the id of nobody, in every order of the people list.                     *)

MissingId == DanglingPeople + 1

DanglingSetOf(n, f) ==
    [i \in 1..n |-> Person(i, Ann, Undefined, Undefined, f[i], <<>>)]

DanglingSets ==
    UNION {{DanglingSetOf(n, f) :
               f \in {g \in [1..n -> ParentLists(1..MissingId)] :
                         \A i \in 1..n : Range(g[i]) \subseteq 1..(i - 1) \cup {MissingId}}} :
           n \in 0..DanglingPeople}

InitDangling ==
    /\ people \in DanglingSets
    /\ nextId = MissingId + 1
    /\ ModalIdle
    /\ OutsideIdle
    /\ dateEngine = "strict"

NextDangling ==
    \/ Render
    \/ \E i \in 1..DanglingPeople : Reorder(i)

SpecDangling == InitDangling /\ [][NextDangling]_vars

\* the parents of id that are persons of the set
ValidParents(id) == ParentsOf(people, id) \cap Ids(people)

\* the (parent, child) pairs with both ends in the set
ParentChildPairs == {<<p, c>> \in Ids(people) \X Ids(people) : p \in ParentsOf(people, c)}

----------------------------------------------------------------------------
(* The sibling list of the edit form on a family that is already there:     *)
(* SiblingPeople persons, every acyclic parent graph with up to two parents *)
(* each, and every symmetric set of up to MaxLinks explicit sibling links.  *)

\* the ids of s in ascending order
RECURSIVE Ascending(_)
Ascending(s) ==
    IF s = {} THEN <<>>
    ELSE LET m == CHOOSE x \in s : \A y \in s : x <= y
         IN  <<m>> \o Ascending(s \ {m})

SiblingPairs == {pr \in (1..SiblingPeople) \X (1..SiblingPeople) : pr[1] < pr[2]}

FamilyOf(f, links) ==
    [i \in 1..SiblingPeople |->
        Person(i, Ann, Undefined, Undefined, f[i],
               Ascending({j \in 1..SiblingPeople : <<i, j>> \in links \/ <<j, i>> \in links}))]

\* the parent lists of persons 1..n, each drawn from the persons before
RECURSIVE ParentChoices(_)
ParentChoices(n) ==
    IF n = 0 THEN {<<>>}
    ELSE {Append(f, pl) : f \in ParentChoices(n - 1),
                          pl \in AscendingParentLists(1..(n - 1))}

Families ==
    {FamilyOf(f, links) :
        f \in ParentChoices(SiblingPeople),
        links \in {l \in SUBSET SiblingPairs : Cardinality(l) <= MaxLinks}}

InitSiblings ==
    /\ people \in Families
    /\ nextId = SiblingPeople + 1
    /\ ModalIdle
    /\ OutsideIdle
    /\ dateEngine = "strict"

NextSiblings ==
    \/ \E id \in 1..SiblingPeople : OpenEditModal(id)
    \/ CloseModal

SpecSiblings == InitSiblings /\ [][NextSiblings]_vars

\* the others that share at least one parentIds entry with id
SharingAParent(id) ==
    {q \in Ids(people) \ {id} : ParentsOf(people, q) \cap ParentsOf(people, id) # {}}

\* the list the edit form of id shows
ShownFor(id) == modalMode = "edit" /\ editPersonId = id

----------------------------------------------------------------------------
(* Persistence: mutate and the auto-load and auto-save effects of App, the  *)
(* fetch calls of saveToServer and saveSnapshotToServer, and the two POST   *)
(* handlers of the dev server.  A body is the document JSON.stringify was   *)
(* given; the server stores it as it came.  Each fetch is a request of its  *)
(* own, so the server can handle the requests in flight in any order, and a *)
(* request can fail or stay in flight for ever.                             *)

\* App: data
data == FamilyData(1, updatedAt, people)

\* JSON.stringify(data.people)
computeHash(d) == d.people

DataUrl == "/api/data"
SnapshotUrl == "/api/snapshot"

\* a POST: cause is the number of events made when fetch was called
Request(url, body, cause) == [url |-> url, body |-> body, cause |-> cause]

\* a replacement of App's data: by handleSavePerson ("save"), by handleDeletePerson
\* ("delete") or by the auto-load ("load")
Event(op, p, doc, before, after) ==
    [op |-> op, person |-> p, doc |-> doc, before |-> before, after |-> after]

\* the file name POST /api/snapshot builds from the clock: seconds, nothing finer
snapshotName(t) == t \div TicksPerSecond

\* a file the auto-load can find at the start: none, one that fails validateFamilyData,
\* or the document of an earlier session
Garbage == FamilyData(2, 0, <<>>)
Earlier == FamilyData(1, 0, <<Person(1, Ann, Undefined, Undefined, <<>>, <<>>)>>)
StartFiles == {NoData, Garbage, Earlier}

\* loadFromServer: null for a failed fetch, a 404 and a document that is not valid
loadFromServer(ok) ==
    IF ok /\ mainFile # NoData /\ mainFile.version = 1 THEN mainFile ELSE NoData

InitPersist ==
    /\ people = <<>>
    /\ nextId = 2
    /\ ModalIdle
    /\ dateEngine = "strict"
    /\ cycleCheck = NoCycleCheck
    /\ layout = NoLayout
    /\ layoutBefore = NoLayout
    /\ run = NoRun
    /\ updatedAt = 0
    /\ baselineHash = <<>>
    /\ selectedId = NoId
    /\ initialized = FALSE
    /\ loading = TRUE
    /\ effectPending = FALSE
    /\ importing = NoImport
    /\ validated = NoValidation
    /\ downloaded = NoDownload
    /\ sent = <<>>
    /\ pending = {}
    /\ failed = {}
    /\ handled = {}
    /\ mainFile \in StartFiles
    /\ snapshots = <<>>
    /\ now = 0
    /\ events = <<>>

\* what no step of the persistence touches
modal == <<modalMode, editPersonId, modalContext, parentIds, siblingIds, errors,
           textFields, lastMutation, dateEngine, cycleCheck, layout, layoutBefore, run>>

\* the fetch calls of a sequence of requests
Fetch(reqs) ==
    /\ sent' = sent \o reqs
    /\ pending' = pending \cup (Len(sent) + 1)..(Len(sent) + Len(reqs))

\* an auto-save effect without its test of initialized
staleEffectUnguarded ==
    IF effectPending THEN <<Request(DataUrl, data, Len(events))>> ELSE <<>>

\* the auto-save effect of the last render, where it has not run yet: React runs it
\* before it renders again
staleEffect ==
    IF effectPending /\ initialized THEN <<Request(DataUrl, data, Len(events))>> ELSE <<>>

\* a mutation that posts no snapshot
mutateWithoutSnapshot(op, p, next, handlerFirst) ==
    /\ Len(events) < MaxEvents
    /\ Fetch(staleEffect)
    /\ people' = next
    /\ updatedAt' = now
    /\ effectPending' = TRUE
    /\ events' = Append(events, Event(op, p, NoData, data, FamilyData(1, now, next)))

\* mutate(fn) where fn gives next and p is the person the handler is about.  The
\* handler posts the snapshot of dataRef.current and queues setData; the effect of
\* the render before, if it is still to run, runs before or after the handler.
mutate(op, p, next, handlerFirst) ==
    LET snapshot == <<Request(SnapshotUrl, data, Len(events) + 1)>> IN
    /\ Len(events) < MaxEvents
    /\ Fetch(IF handlerFirst THEN snapshot \o staleEffect ELSE staleEffect \o snapshot)
    /\ people' = next
    /\ updatedAt' = now
    /\ effectPending' = TRUE
    /\ events' = Append(events, Event(op, p, NoData, data, FamilyData(1, now, next)))

\* handleSavePerson for a new person without links or context
HandleSavePerson(handlerFirst) ==
    /\ nextId <= MaxStoreIds
    /\ mutate("save", Person(nextId, Ann, Undefined, Undefined, <<>>, <<>>),
              handleSavePerson(people,
                               Person(nextId, Ann, Undefined, Undefined, <<>>, <<>>),
                               NoContext),
              handlerFirst)
    /\ nextId' = nextId + 1
    /\ UNCHANGED <<baselineHash, selectedId, initialized, loading, importing, validated, failed,
                   handled, mainFile, snapshots, now, downloaded, modal>>

HandleDeletePerson(id, handlerFirst) ==
    /\ id \in Ids(people)
    /\ mutate("delete", find(people, id), handleDeletePerson(people, id), handlerFirst)
    /\ selectedId' = IF selectedId = id THEN NoId ELSE selectedId
    /\ UNCHANGED <<nextId, baselineHash, initialized, loading, importing, validated, failed,
                   handled, mainFile, snapshots, now, downloaded, modal>>

\* the auto-save effect: saveToServer(data) once initialized
AutoSave ==
    /\ effectPending
    /\ Fetch(staleEffect)
    /\ effectPending' = FALSE
    /\ UNCHANGED <<people, nextId, updatedAt, baselineHash, selectedId, initialized,
                   loading, importing, validated, failed, handled, mainFile, snapshots, now,
                   events, downloaded, modal>>

\* the auto-load effect: loadFromServer().then(...)
LoadDone(ok) ==
    LET loaded == loadFromServer(ok) IN
    /\ loading
    /\ loading' = FALSE
    /\ initialized' = TRUE
    /\ effectPending' = TRUE
    /\ people' = IF loaded # NoData THEN loaded.people ELSE people
    /\ updatedAt' = IF loaded # NoData THEN loaded.updatedAt ELSE updatedAt
    /\ baselineHash' = IF loaded # NoData THEN computeHash(loaded) ELSE baselineHash
    /\ events' = Append(events, Event("load", NoPerson, loaded, data,
                                      FamilyData(1, updatedAt', people')))
    /\ Fetch(staleEffect)
    /\ UNCHANGED <<nextId, selectedId, importing, validated, failed, handled, mainFile,
                   snapshots, now, downloaded, modal>>

\* POST /api/data: the body replaces the main file
PostData(i) ==
    /\ i \in pending
    /\ sent[i].url = DataUrl
    /\ mainFile' = sent[i].body
    /\ pending' = pending \ {i}
    /\ handled' = handled \cup {i}
    /\ UNCHANGED <<people, nextId, updatedAt, baselineHash, selectedId, initialized,
                   loading, effectPending, importing, validated, sent, failed, snapshots, now,
                   events, downloaded, modal>>

\* POST /api/snapshot: the body is written under the name of the current second
PostSnapshot(i) ==
    /\ i \in pending
    /\ sent[i].url = SnapshotUrl
    /\ snapshots' = [n \in DOMAIN snapshots \cup {snapshotName(now)} |->
                        IF n = snapshotName(now) THEN sent[i].body ELSE snapshots[n]]
    /\ pending' = pending \ {i}
    /\ handled' = handled \cup {i}
    /\ UNCHANGED <<people, nextId, updatedAt, baselineHash, selectedId, initialized,
                   loading, effectPending, importing, validated, sent, failed, mainFile, now,
                   events, downloaded, modal>>

\* a write that fails and takes the mutation it belongs to back
FetchFailedRollsBack(i) ==
    /\ i \in pending
    /\ pending' = pending \ {i}
    /\ failed' = failed \cup {[request |-> i, after |-> Len(events)]}
    /\ people' = IF sent[i].cause > 0 THEN events[sent[i].cause].before.people ELSE people
    /\ UNCHANGED <<nextId, updatedAt, baselineHash, selectedId, initialized,
                   loading, effectPending, importing, validated, sent, handled, mainFile,
                   snapshots, now, events, downloaded, modal>>

\* fetch rejects: the catch of saveToServer / saveSnapshotToServer logs a warning
FetchFailed(i) ==
    /\ i \in pending
    /\ pending' = pending \ {i}
    /\ failed' = failed \cup {[request |-> i, after |-> Len(events)]}
    /\ UNCHANGED <<people, nextId, updatedAt, baselineHash, selectedId, initialized,
                   loading, effectPending, importing, validated, sent, handled, mainFile,
                   snapshots, now, events, downloaded, modal>>

\* time passes
Tick ==
    /\ now < MaxTime
    /\ now' = now + 1
    /\ UNCHANGED <<people, nextId, updatedAt, baselineHash, selectedId, initialized,
                   loading, effectPending, importing, validated, sent, pending, failed, handled,
                   mainFile, snapshots, events, downloaded, modal>>

\* the requests one behaviour can make: a snapshot and a save for every event
MaxRequests == 2 * MaxEvents

\* the client and the server while the clock runs and every request arrives
NextPersist ==
    \/ \E handlerFirst \in BOOLEAN : HandleSavePerson(handlerFirst)
    \/ \E id \in 1..MaxStoreIds, handlerFirst \in BOOLEAN :
          HandleDeletePerson(id, handlerFirst)
    \/ AutoSave
    \/ \E ok \in BOOLEAN : LoadDone(ok)
    \/ \E i \in 1..MaxRequests : PostData(i)
    \/ \E i \in 1..MaxRequests : PostSnapshot(i)
    \/ Tick

SpecPersist == InitPersist /\ [][NextPersist]_vars

\* the client and the server where a request can also fail, within one tick of the clock
NextWrites ==
    \/ \E handlerFirst \in BOOLEAN : HandleSavePerson(handlerFirst)
    \/ \E id \in 1..MaxStoreIds, handlerFirst \in BOOLEAN :
          HandleDeletePerson(id, handlerFirst)
    \/ AutoSave
    \/ \E ok \in BOOLEAN : LoadDone(ok)
    \/ \E i \in 1..MaxRequests : PostData(i)
    \/ \E i \in 1..MaxRequests : PostSnapshot(i)
    \/ \E i \in 1..MaxRequests : FetchFailed(i)

SpecWrites == InitPersist /\ [][NextWrites]_vars

\* the requests of one kind, as indices in sent
Saves == {i \in 1..Len(sent) : sent[i].url = DataUrl}
Snapshots == {i \in 1..Len(sent) : sent[i].url = SnapshotUrl}

\* the events that are mutations
Mutations == {k \in 1..Len(events) : events[k].op \in {"save", "delete"}}

\* the save requests that carry the document mutation k made: initiated while k was
\* the last mutation, with the document after k as body
SavesOf(k) ==
    {j \in Saves : /\ sent[j].cause >= k
                   /\ \A m \in Mutations : m <= sent[j].cause => m <= k
                   /\ sent[j].body = events[k].after}

\* the people list the events give, whatever became of the requests
RECURSIVE Replay(_)
Replay(k) ==
    IF k = 0 THEN <<>>
    ELSE LET e == events[k] IN
         CASE e.op = "save" -> handleSavePerson(Replay(k - 1), e.person, NoContext)
           [] e.op = "delete" -> handleDeletePerson(Replay(k - 1), e.person.id)
           [] OTHER -> IF e.doc # NoData THEN e.doc.people ELSE Replay(k - 1)

----------------------------------------------------------------------------
(* validateFamilyData on JSON documents: objects with any of the fields it  *)
(* reads missing or of another type, and values that are no objects.        *)

\* typeof v === 'object': objects, arrays and null
typeofObject(v) == v[1] \in {"object", "array", "null"}

\* o.name: undefined where o is no plain object or has no such field
field(o, name) ==
    IF o[1] = "object" /\ name \in DOMAIN o[2] THEN o[2][name] ELSE JUndefined

\* o.name = v
with(o, name, v) ==
    Obj([n \in DOMAIN o[2] \cup {name} |-> IF n = name THEN v ELSE o[2][n]])

\* the loop over d.people that leaves a person without siblingIds as it is
RECURSIVE validatePeopleNoMigration(_, _)
validatePeopleNoMigration(i, ps) ==
    IF i > Len(ps) THEN [ok |-> TRUE, people |-> ps]
    ELSE LET p == ps[i] IN
         IF ~typeofObject(p) \/ p[1] = "null" THEN [ok |-> FALSE, people |-> ps]
         ELSE IF field(p, "id")[1] # "string" THEN [ok |-> FALSE, people |-> ps]
         ELSE IF field(p, "firstName")[1] # "string" THEN [ok |-> FALSE, people |-> ps]
         ELSE IF field(p, "parentIds")[1] # "array" THEN [ok |-> FALSE, people |-> ps]
         ELSE validatePeopleNoMigration(i + 1, ps)

\* the loop over d.people from entry i on; ps holds the migrations made so far
RECURSIVE validatePeople(_, _)
validatePeople(i, ps) ==
    IF i > Len(ps) THEN [ok |-> TRUE, people |-> ps]
    ELSE LET p == ps[i] IN
         IF ~typeofObject(p) \/ p[1] = "null" THEN [ok |-> FALSE, people |-> ps]
         ELSE IF field(p, "id")[1] # "string" THEN [ok |-> FALSE, people |-> ps]
         ELSE IF field(p, "firstName")[1] # "string" THEN [ok |-> FALSE, people |-> ps]
         ELSE IF field(p, "parentIds")[1] # "array" THEN [ok |-> FALSE, people |-> ps]
         ELSE IF field(p, "siblingIds")[1] # "array"
              THEN validatePeople(i + 1, [ps EXCEPT ![i] = with(p, "siblingIds", Arr(<<>>))])
              ELSE validatePeople(i + 1, ps)

\* validateFamilyData(obj): whether obj is accepted, and obj as the call leaves it
validateFamilyData(obj) ==
    IF ~typeofObject(obj) \/ obj[1] = "null" THEN [ok |-> FALSE, obj |-> obj]
    ELSE IF ~(field(obj, "version")[1] = "number" /\ field(obj, "version")[2] = 1)
         THEN [ok |-> FALSE, obj |-> obj]
    ELSE IF field(obj, "updatedAt")[1] # "string" THEN [ok |-> FALSE, obj |-> obj]
    ELSE IF field(obj, "people")[1] # "array" THEN [ok |-> FALSE, obj |-> obj]
    ELSE LET r == validatePeople(1, field(obj, "people")[2])
         IN  [ok |-> r.ok, obj |-> with(obj, "people", Arr(r.people))]

\* the objects that take each field from the values offered for it, JUndefined
\* standing for a field that is missing
RECURSIVE Fields(_, _)
Fields(names, offered) ==
    IF names = {} THEN {[n \in {} |-> JUndefined]}
    ELSE LET name == CHOOSE n \in names : TRUE IN
         {IF v[1] = "undefined" THEN f
          ELSE [n \in DOMAIN f \cup {name} |-> IF n = name THEN v ELSE f[n]] :
             f \in Fields(names \ {name}, offered), v \in offered[name]}

Objects(names, offered) == {Obj(f) : f \in Fields(names, offered)}

PersonFields == {"id", "firstName", "parentIds", "siblingIds"}

\* the entries of a people array: person records with fields missing or of another
\* type, and null
PersonItems ==
    {JNull} \cup
    Objects(PersonFields,
            [n \in PersonFields |->
                CASE n = "id" -> {JUndefined, Str(<<"1">>), Numb(1)}
                  [] n = "firstName" -> {JUndefined, Str(Ann)}
                  [] n = "parentIds" -> {JUndefined, Arr(<<>>)}
                  [] n = "siblingIds" -> {JUndefined, Arr(<<Str(<<"1">>)>>)}])

\* the sequences over S of length up to n
RECURSIVE SeqsUpTo(_, _)
SeqsUpTo(S, n) ==
    IF n = 0 THEN {<<>>}
    ELSE SeqsUpTo(S, n - 1) \cup
         {Append(q, x) : q \in {r \in SeqsUpTo(S, n - 1) : Len(r) = n - 1}, x \in S}

DocFields == {"version", "updatedAt", "people"}

\* the documents with up to n entries in people
DocsUpTo(n) ==
    {JNull, Str(Ann), Arr(<<>>)} \cup
    Objects(DocFields,
            [f \in DocFields |->
                CASE f = "version" -> {JUndefined, Numb(1), Numb(2), Str(<<"1">>)}
                  [] f = "updatedAt" -> {JUndefined, Str(<<"0">>), Numb(0)}
                  [] f = "people" -> {JUndefined, Obj(<<>>)} \cup
                                     {Arr(q) : q \in SeqsUpTo(PersonItems, n)}])

Docs == DocsUpTo(MaxDocPeople)

InitValidate ==
    /\ people = <<>>
    /\ nextId = 2
    /\ ModalIdle
    /\ dateEngine = "strict"
    /\ cycleCheck = NoCycleCheck
    /\ layout = NoLayout
    /\ layoutBefore = NoLayout
    /\ run = NoRun
    /\ updatedAt = 0
    /\ baselineHash = <<>>
    /\ selectedId = NoId
    /\ initialized = TRUE
    /\ loading = FALSE
    /\ effectPending = FALSE
    /\ importing = NoImport
    /\ validated \in {Validation(FALSE, d, FALSE, JNull) : d \in Docs}
    /\ downloaded = NoDownload
    /\ sent = <<>>
    /\ pending = {}
    /\ failed = {}
    /\ handled = {}
    /\ mainFile = NoData
    /\ snapshots = <<>>
    /\ now = 0
    /\ events = <<>>

\* a call of validateFamilyData on the document
ValidateFamilyData ==
    /\ ~validated.called
    /\ validated' = Validation(TRUE, validated.input,
                               validateFamilyData(validated.input).ok,
                               validateFamilyData(validated.input).obj)
    /\ UNCHANGED <<people, nextId, updatedAt, baselineHash, selectedId, initialized,
                   loading, effectPending, importing, sent, pending, failed, handled,
                   mainFile, snapshots, now, events, downloaded, modal>>

NextValidate == ValidateFamilyData

SpecValidate == InitValidate /\ [][NextValidate]_vars

\* d is an object that has the field, with a value of the type
HasOfType(d, name, type) ==
    /\ d[1] = "object"
    /\ name \in DOMAIN d[2]
    /\ d[2][name][1] = type

\* the condition of acceptance
Acceptable(d) ==
    /\ HasOfType(d, "version", "number")
    /\ d[2]["version"][2] = 1
    /\ HasOfType(d, "updatedAt", "string")
    /\ HasOfType(d, "people", "array")
    /\ \A i \in 1..Len(d[2]["people"][2]) :
          LET p == d[2]["people"][2][i] IN
          /\ HasOfType(p, "id", "string")
          /\ HasOfType(p, "firstName", "string")
          /\ HasOfType(p, "parentIds", "array")

\* q is the person record p, with siblingIds = [] where p had none
Migrated(p, q) ==
    /\ q[1] = "object"
    /\ DOMAIN q[2] = DOMAIN p[2] \cup {"siblingIds"}
    /\ \A n \in DOMAIN p[2] : q[2][n] = p[2][n]
    /\ "siblingIds" \notin DOMAIN p[2] =>
          (q[2]["siblingIds"][1] = "array" /\ q[2]["siblingIds"][2] = <<>>)

----------------------------------------------------------------------------
(* Import and export: a file is picked, read and parsed while the user goes *)
(* on, and then validated and adopted or rejected.  The server is left out: *)
(* what it does with the requests never comes back to the client.           *)

\* the id a one-digit string names, and the ids of an array of such strings
asId(v) == DigitVal[v[2][1]]
asIds(v) == [k \in 1..Len(v[2]) |-> asId(v[2][k])]

\* a birth or death field read as a PartialDate: undefined where there is none
asDate(v) ==
    IF v[1] # "object" THEN Undefined
    ELSE IF field(v, "date")[1] = "string"
         THEN FullDate(field(v, "year")[2], field(v, "date")[2])
         ELSE YearOnly(field(v, "year")[2])

\* an accepted person record read as a Person
asPerson(p) ==
    Person(asId(field(p, "id")), field(p, "firstName")[2],
           asDate(field(p, "birth")), asDate(field(p, "death")),
           asIds(field(p, "parentIds")), asIds(field(p, "siblingIds")))

\* an accepted document read as FamilyData (obj is FamilyData)
asFamilyData(obj) ==
    FamilyData(1, asId(field(obj, "updatedAt")),
               [i \in 1..Len(field(obj, "people")[2]) |->
                   asPerson(field(obj, "people")[2][i])])

\* a document of one person, as exported by an earlier version (no siblingIds)
Exported ==
    Obj([version |-> Numb(1), updatedAt |-> Str(<<"0">>),
         people |-> Arr(<<Obj([id |-> Str(<<"1">>), firstName |-> Str(Ann),
                              parentIds |-> Arr(<<>>)])>>)])

\* the person of Exported without the field
PersonWithout(name) ==
    Obj([n \in {"id", "firstName", "parentIds"} \ {name} |-> Exported[2]["people"][2][1][2][n]])

\* Exported without the field
ExportedWithout(name) ==
    Obj([n \in DocFields \ {name} |-> Exported[2][n]])

\* the files the user can pick: text that is no JSON, Exported, a tree without persons,
\* and documents that lack one thing
ImportFiles ==
    {File(FALSE, JNull)} \cup
    {File(TRUE, d) :
        d \in {Exported, with(Exported, "people", Arr(<<>>)), JNull,
               with(Exported, "version", Numb(2)), ExportedWithout("updatedAt"),
               ExportedWithout("people"),
               with(Exported, "people", Arr(<<PersonWithout("id")>>)),
               with(Exported, "people", Arr(<<PersonWithout("parentIds")>>))}}

\* Sidebar: a click on a person of the list
Select(id) ==
    /\ id \in Ids(people)
    /\ selectedId' = id
    /\ UNCHANGED <<people, nextId, updatedAt, baselineHash, initialized, loading,
                   effectPending, importing, validated, sent, pending, failed, handled,
                   mainFile, snapshots, now, events, downloaded, modal>>

\* the one-digit string of an id or of a clock reading
toStr(n) == Str(<<CHOOSE c \in Digits : DigitVal[c] = n>>)

\* JSON.stringify of a PartialDate: date only where there is one
stringifyDate(d) ==
    IF d.date = <<>> THEN Obj([year |-> Numb(d.year)])
    ELSE Obj([year |-> Numb(d.year), date |-> Str(d.date)])

\* JSON.stringify of a Person that leaves siblingIds out
stringifyPersonWithoutSiblings(p) ==
    Obj([n \in {"id", "firstName", "parentIds"} |->
            CASE n = "id" -> toStr(p.id)
              [] n = "firstName" -> Str(p.firstName)
              [] n = "parentIds" -> Arr([k \in 1..Len(p.parentIds) |-> toStr(p.parentIds[k])])])

\* JSON.stringify of a Person: a birth or death that is undefined is left out
stringifyPerson(p) ==
    Obj([n \in {"id", "firstName", "parentIds", "siblingIds"}
                  \cup (IF p.birth.defined THEN {"birth"} ELSE {})
                  \cup (IF p.death.defined THEN {"death"} ELSE {}) |->
            CASE n = "id" -> toStr(p.id)
              [] n = "firstName" -> Str(p.firstName)
              [] n = "birth" -> stringifyDate(p.birth)
              [] n = "death" -> stringifyDate(p.death)
              [] n = "parentIds" -> Arr([k \in 1..Len(p.parentIds) |-> toStr(p.parentIds[k])])
              [] n = "siblingIds" ->
                    Arr([k \in 1..Len(p.siblingIds) |-> toStr(p.siblingIds[k])])])

\* JSON.parse(JSON.stringify(data, null, 2)): the document of the exported file
stringify(d) ==
    Obj([version |-> Numb(d.version), updatedAt |-> toStr(d.updatedAt),
         people |-> Arr([i \in 1..Len(d.people) |-> stringifyPerson(d.people[i])])])

\* handleExport: exportToFile(data) downloads the file, and the baseline moves to the
\* current people
HandleExport ==
    /\ baselineHash' = computeHash(data)
    /\ downloaded' = Download(File(TRUE, stringify(data)), people)
    /\ UNCHANGED <<people, nextId, updatedAt, selectedId, initialized, loading,
                   effectPending, importing, validated, sent, pending, failed, handled,
                   mainFile, snapshots, now, events, modal>>

\* handleImport up to its await: readJsonFile(file) starts reading
HandleImport(file) ==
    /\ ~importing.picked
    /\ importing' = file
    /\ UNCHANGED <<people, nextId, updatedAt, baselineHash, selectedId, initialized,
                   loading, effectPending, validated, sent, pending, failed, handled,
                   mainFile, snapshots, now, events, downloaded, modal>>

\* the document is adopted: setData(obj), setBaselineHash, setSelectedId(null)
Adopt(obj) ==
    LET doc == asFamilyData(obj) IN
    /\ Len(events) < MaxEvents
    /\ people' = doc.people
    /\ updatedAt' = doc.updatedAt
    /\ baselineHash' = computeHash(doc)
    /\ selectedId' = NoId
    /\ effectPending' = TRUE
    /\ events' = Append(events, Event("import", NoPerson, doc, data, doc))
    /\ Fetch(staleEffect)

\* nothing of the document is adopted
Reject ==
    UNCHANGED <<people, updatedAt, baselineHash, selectedId, effectPending, events,
                sent, pending>>

\* an import that drops the selection before it looks at the document
HandleImportDoneClearsSelection ==
    /\ importing.picked
    /\ importing' = NoImport
    /\ selectedId' = NoId
    /\ IF ~importing.parsable
       THEN /\ UNCHANGED <<people, updatedAt, baselineHash, effectPending, events,
                           sent, pending>>
            /\ UNCHANGED validated
       ELSE LET r == validateFamilyData(importing.value) IN
            /\ validated' = Validation(TRUE, importing.value, r.ok, r.obj)
            /\ IF r.ok THEN Adopt(r.obj)
               ELSE UNCHANGED <<people, updatedAt, baselineHash, effectPending, events,
                                sent, pending>>
    /\ UNCHANGED <<nextId, initialized, loading, failed, handled, mainFile, snapshots,
                   now, downloaded, modal>>

\* handleImport after its await: the parse failed (catch), the document is not valid
\* (alert and return), or it is adopted
HandleImportDone ==
    /\ importing.picked
    /\ importing' = NoImport
    /\ IF ~importing.parsable
       THEN Reject /\ UNCHANGED validated
       ELSE LET r == validateFamilyData(importing.value) IN
            /\ validated' = Validation(TRUE, importing.value, r.ok, r.obj)
            /\ IF r.ok THEN Adopt(r.obj) ELSE Reject
    /\ UNCHANGED <<nextId, initialized, loading, failed, handled, mainFile, snapshots,
                   now, downloaded, modal>>

NextImport ==
    \/ \E ok \in BOOLEAN : LoadDone(ok)
    \/ \E handlerFirst \in BOOLEAN : HandleSavePerson(handlerFirst)
    \/ AutoSave
    \/ \E id \in 1..MaxStoreIds : Select(id)
    \/ \E file \in ImportFiles : HandleImport(file)
    \/ HandleImportDone

SpecImport == InitPersist /\ [][NextImport]_vars

\* the file can be parsed and its document meets the condition of acceptance
Importable(file) == file.parsable /\ Acceptable(file.value)

----------------------------------------------------------------------------
(* Export and import again: the application holds a family it has loaded,   *)
(* the user exports, deletes persons, and imports the exported file or the  *)
(* file of an earlier version.                                              *)

May1950 == <<"1", "9", "5", "0", "-", "0", "5", "-", "0", "1">>
ExportPairs == {pr \in (1..ExportPeople) \X (1..ExportPeople) : pr[1] < pr[2]}

\* person 1 has the birth given; the others have no dates
ExportFamilyOf(f, links, birth) ==
    [i \in 1..ExportPeople |->
        Person(i, Ann, IF i = 1 THEN birth ELSE Undefined, Undefined, f[i],
               Ascending({j \in 1..ExportPeople : <<i, j>> \in links \/ <<j, i>> \in links}))]

ExportFamilies ==
    {ExportFamilyOf(f, links, birth) :
        f \in ParentChoices(ExportPeople),
        links \in SUBSET ExportPairs,
        birth \in {Undefined, YearOnly(1950), FullDate(1950, May1950)}}

\* the auto-load has found the people in the main file, and the auto-save of that
\* render has been posted
Loaded ==
    /\ cycleCheck = NoCycleCheck
    /\ layout = NoLayout
    /\ layoutBefore = NoLayout
    /\ run = NoRun
    /\ updatedAt = 0
    /\ baselineHash = people
    /\ selectedId = NoId
    /\ initialized = TRUE
    /\ loading = FALSE
    /\ effectPending = FALSE
    /\ importing = NoImport
    /\ validated = NoValidation
    /\ downloaded = NoDownload
    /\ sent = <<Request(DataUrl, data, 0)>>
    /\ pending = {1}
    /\ failed = {}
    /\ handled = {}
    /\ mainFile = data
    /\ snapshots = <<>>
    /\ now = 0
    /\ events = <<>>

InitExport ==
    /\ people \in ExportFamilies
    /\ nextId = ExportPeople + 1
    /\ ModalIdle
    /\ dateEngine = "strict"
    /\ Loaded

NextExport ==
    \/ HandleExport
    \/ \E id \in 1..ExportPeople, handlerFirst \in BOOLEAN :
          HandleDeletePerson(id, handlerFirst)
    \/ AutoSave
    \/ downloaded.file.picked /\ HandleImport(downloaded.file)
    \/ HandleImport(File(TRUE, Exported))
    \/ HandleImportDone

SpecExport == InitExport /\ [][NextExport]_vars

\* the same persons in the same order, with the same ids and links
SameGraph(ps, qs) ==
    /\ Len(ps) = Len(qs)
    /\ \A i \in 1..Len(ps) :
          /\ ps[i].id = qs[i].id
          /\ ps[i].parentIds = qs[i].parentIds
          /\ ps[i].siblingIds = qs[i].siblingIds

\* Sidebar: "Unsaved Changes"
dirty == computeHash(data) # baselineHash

----------------------------------------------------------------------------
(* The form on top of the storage: what a click on a button of PersonModal  *)
(* does to the form, to the graph and to the requests, with texts that pass *)
(* and texts that fail the validation.                                      *)

Year1949 == <<"1", "9", "4", "9">>
Year1950 == <<"1", "9", "5", "0">>
NoDateText == <<"1", "9", "5", "x">>

SubmitInputs ==
    {Text(Ann, <<>>, <<>>), Text(<<" ">>, <<>>, <<>>), Text(Ann, NoDateText, <<>>),
     Text(Ann, <<>>, NoDateText), Text(Ann, Year1950, Year1949)}

InitSubmit ==
    /\ people \in {<<Person(1, Ann, Undefined, Undefined, <<>>, <<>>)>>,
                   <<Person(1, Ann, Undefined, Undefined, <<>>, <<>>),
                     Person(2, Ann, Undefined, Undefined, <<1>>, <<>>)>>}
    /\ nextId = Len(people) + 1
    /\ ModalIdle
    /\ dateEngine = "strict"
    /\ Loaded

\* onSave(saved): handleModalSave hands the person and the context to handleSavePerson
OnSave(input, handlerFirst) ==
    LET saved == buildPerson(personId, input.firstName, input.birthInput,
                             input.deathInput, parentIds, siblingIds, dateEngine)
    IN  /\ buildErrors(input.firstName, input.birthInput, input.deathInput, dateEngine)
              = <<>>
        /\ mutate("save", saved, handleSavePerson(people, saved, modalContext),
                  handlerFirst)
        /\ nextId' = IF personId = nextId THEN nextId + 1 ELSE nextId
        /\ textFields' = input
        /\ lastMutation' = Mutation("save", NoId, FALSE)
        /\ UNCHANGED <<dateEngine, cycleCheck, layout, layoutBefore, run, baselineHash,
                       selectedId, initialized, loading, importing, validated,
                       downloaded, failed, handled, mainFile, snapshots, now>>

\* "Save"
SaveButton(input, handlerFirst) ==
    /\ modalMode # "none"
    /\ \/ SubmitRejected(input)
       \/ /\ OnSave(input, handlerFirst)
          /\ ModalClosed

\* "+ Create New Parent"
CreateParentButton(input, remount, handlerFirst) ==
    /\ canAddNewParent
    /\ nextId <= SubmitIds
    /\ \/ SubmitRejected(input)
       \/ /\ OnSave(input, handlerFirst)
          /\ FollowUpForm(Context(personId, <<>>, NoId), remount)

\* "+ Add Child"
AddChildButton(input, remount, handlerFirst) ==
    /\ isEdit
    /\ nextId <= SubmitIds
    /\ \/ SubmitRejected(input)
       \/ /\ OnSave(input, handlerFirst)
          /\ FollowUpForm(Context(NoId, <<personId>>, NoId), remount)

\* "+ Add Sibling"
AddSiblingButton(input, remount, handlerFirst) ==
    /\ isEdit
    /\ nextId <= SubmitIds
    /\ \/ SubmitRejected(input)
       \/ /\ OnSave(input, handlerFirst)
          /\ FollowUpForm(Context(NoId, find(people, personId).parentIds, personId),
                          remount)

NextSubmit ==
    \/ OpenAddModal(SubmitIds)
    \/ \E id \in 1..SubmitIds : OpenEditModal(id)
    \/ CloseModal
    \/ \E input \in SubmitInputs, handlerFirst \in BOOLEAN : SaveButton(input, handlerFirst)
    \/ \E input \in SubmitInputs, remount \in BOOLEAN, handlerFirst \in BOOLEAN :
          CreateParentButton(input, remount, handlerFirst)
    \/ \E input \in SubmitInputs, remount \in BOOLEAN, handlerFirst \in BOOLEAN :
          AddChildButton(input, remount, handlerFirst)
    \/ \E input \in SubmitInputs, remount \in BOOLEAN, handlerFirst \in BOOLEAN :
          AddSiblingButton(input, remount, handlerFirst)
    \/ AutoSave

SpecSubmit == InitSubmit /\ [][NextSubmit]_vars

\* the submitted texts fail the validation: no first name, a date that is no date,
\* or a birth after the death
FailsValidation ==
    \/ ~NamePresent
    \/ Birth.error # NoError
    \/ Death.error # NoError
    \/ /\ Birth.value.defined
       /\ Death.value.defined
       /\ \/ Birth.value.year > Death.value.year
          \/ /\ Birth.value.year = Death.value.year
             /\ IsFullDate(Birth.value)
             /\ IsFullDate(Death.value)
             /\ Later(Ymd(Birth.value.date), Ymd(Death.value.date))

----------------------------------------------------------------------------
(* handleDeletePerson as a function: applied to every list of DeletePeople  *)
(* persons with parent lists in either order, symmetric sibling links and   *)
(* references to GoneId, the id of nobody, as an imported document may hold *)
(* them; and to every id, GoneId included.                                  *)

GoneId == DeletePeople + 1

DeletePairs == {pr \in (1..DeletePeople) \X (1..DeletePeople) : pr[1] < pr[2]}

\* the parent lists of persons 1..n, each drawn from the persons before and GoneId
RECURSIVE DeleteParentChoices(_)
DeleteParentChoices(n) ==
    IF n = 0 THEN {<<>>}
    ELSE {Append(f, pl) : f \in DeleteParentChoices(n - 1),
                          pl \in ParentLists(1..(n - 1) \cup {GoneId})}

DeleteSetOf(f, links, gone) ==
    [i \in 1..DeletePeople |->
        Person(i, IF i = 1 THEN Ann ELSE Bob,
               IF i = 1 THEN YearOnly(1950) ELSE Undefined, Undefined, f[i],
               Ascending({j \in 1..DeletePeople : <<i, j>> \in links \/ <<j, i>> \in links}
                         \cup (IF i = 1 /\ gone THEN {GoneId} ELSE {})))]

DeleteSets ==
    {DeleteSetOf(f, links, gone) :
        f \in DeleteParentChoices(DeletePeople),
        links \in SUBSET DeletePairs,
        gone \in BOOLEAN}

InitDelete ==
    /\ people \in DeleteSets
    /\ nextId = GoneId + 1
    /\ ModalIdle
    /\ OutsideIdle
    /\ dateEngine = "strict"

\* the function handleDeletePerson hands to mutate is applied to the list
DeletePerson(id) ==
    /\ people' = handleDeletePerson(people, id)
    /\ lastMutation' = Mutation("delete", id, Referenced(people, id))
    /\ UNCHANGED <<nextId, modalMode, editPersonId, modalContext, parentIds, siblingIds,
                   errors, textFields, outside>>

NextDelete == \E id \in 1..GoneId : DeletePerson(id)

SpecDelete == InitDelete /\ [][NextDelete]_vars

\* the persons of ps other than id, in the order of ps
RECURSIVE Others(_, _)
Others(ps, id) ==
    IF ps = <<>> THEN <<>>
    ELSE (IF Head(ps).id = id THEN <<>> ELSE <<Head(ps)>>) \o Others(Tail(ps), id)

\* s without every occurrence of x, the order kept
RECURSIVE Filtered(_, _)
Filtered(s, x) ==
    IF s = <<>> THEN <<>>
    ELSE (IF Head(s) = x THEN <<>> ELSE <<Head(s)>>) \o Filtered(Tail(s), x)

\* the step has removed X and nothing else: the others are there in their order, each
\* with its fields and with its lists less X
OnlyRemoved(X) ==
    LET rest == Others(people, X) IN
    /\ Len(people') = Len(rest)
    /\ \A i \in 1..Len(rest) :
          /\ people'[i].id = rest[i].id
          /\ people'[i].firstName = rest[i].firstName
          /\ people'[i].birth = rest[i].birth
          /\ people'[i].death = rest[i].death
          /\ people'[i].parentIds = Filtered(rest[i].parentIds, X)
          /\ people'[i].siblingIds = Filtered(rest[i].siblingIds, X)
          /\ Range(people'[i].parentIds) \subseteq Range(rest[i].parentIds)

----------------------------------------------------------------------------
(* The traversals step by step: getDescendantIds, getAncestorIds and        *)
(* assignGenerations are run on every list of TraversePeople persons whose  *)
(* parentIds name any persons of the list, themselves included, and         *)
(* NobodyId, the id of nobody.  A step is one round of the while loop, or   *)
(* one call or return of compute.                                           *)

NobodyId == TraversePeople + 1

TraverseSets ==
    {[i \in 1..TraversePeople |-> Person(i, Ann, Undefined, Undefined, f[i], <<>>)] :
        f \in [1..TraversePeople -> ParentLists(1..NobodyId)]}

InitTraverse ==
    /\ people \in TraverseSets
    /\ nextId = NobodyId + 1
    /\ ModalIdle
    /\ OutsideIdle
    /\ dateEngine = "strict"

\* const descendants = new Set(); const queue = [personId]
CallGetDescendantIds(id) ==
    /\ run = NoRun
    /\ run' = Run("getDescendantIds", FALSE, <<id>>, {}, 0, <<>>, {}, <<>>, {})
    /\ UNCHANGED <<people, nextId, modalMode, editPersonId, modalContext, parentIds,
                   siblingIds, errors, textFields, lastMutation, dateEngine, cycleCheck,
                   layout, layoutBefore, storage>>

\* a loop that goes on when the queue is empty: pop() gives undefined, the id of nobody
StepGetDescendantIdsOnEmpty ==
    /\ run.fn = "getDescendantIds"
    /\ ~run.done
    /\ LET current == IF run.queue = <<>> THEN NoId ELSE run.queue[Len(run.queue)]
           r == scanChildren(1, current, SubSeq(run.queue, 1, Len(run.queue) - 1),
                             run.found, people)
       IN  run' = [run EXCEPT !.queue = r.queue, !.found = r.descendants]
    /\ UNCHANGED <<people, nextId, modalMode, editPersonId, modalContext, parentIds,
                   siblingIds, errors, textFields, lastMutation, dateEngine, cycleCheck,
                   layout, layoutBefore, storage>>

\* while (queue.length > 0) { ... } return descendants
StepGetDescendantIds ==
    /\ run.fn = "getDescendantIds"
    /\ ~run.done
    /\ IF run.queue = <<>> THEN run' = [run EXCEPT !.done = TRUE]
       ELSE LET current == run.queue[Len(run.queue)]
                r == scanChildren(1, current, SubSeq(run.queue, 1, Len(run.queue) - 1),
                                  run.found, people)
            IN  run' = [run EXCEPT !.queue = r.queue, !.found = r.descendants]
    /\ UNCHANGED <<people, nextId, modalMode, editPersonId, modalContext, parentIds,
                   siblingIds, errors, textFields, lastMutation, dateEngine, cycleCheck,
                   layout, layoutBefore, storage>>

\* const ancestors = new Set(); const queue = [personId]
CallGetAncestorIds(id) ==
    /\ run = NoRun
    /\ run' = Run("getAncestorIds", FALSE, <<id>>, {}, 0, <<>>, {}, <<>>, {})
    /\ UNCHANGED <<people, nextId, modalMode, editPersonId, modalContext, parentIds,
                   siblingIds, errors, textFields, lastMutation, dateEngine, cycleCheck,
                   layout, layoutBefore, storage>>

\* the for loop of getAncestorIds over person.parentIds, from index i on
RECURSIVE scanParents(_, _, _, _)
scanParents(i, pids, queue, ancestors) ==
    IF i > Len(pids) THEN [queue |-> queue, ancestors |-> ancestors]
    ELSE IF pids[i] \notin ancestors
        THEN scanParents(i + 1, pids, Append(queue, pids[i]), ancestors \cup {pids[i]})
        ELSE scanParents(i + 1, pids, queue, ancestors)

\* while (queue.length > 0) { ... } return ancestors
StepGetAncestorIds ==
    /\ run.fn = "getAncestorIds"
    /\ ~run.done
    /\ IF run.queue = <<>> THEN run' = [run EXCEPT !.done = TRUE]
       ELSE LET current == run.queue[Len(run.queue)]
                rest == SubSeq(run.queue, 1, Len(run.queue) - 1)
                r == scanParents(1, find(people, current).parentIds, rest, run.found)
            IN  IF findIndex(people, current) = 0
                THEN run' = [run EXCEPT !.queue = rest]
                ELSE run' = [run EXCEPT !.queue = r.queue, !.found = r.ancestors]
    /\ UNCHANGED <<people, nextId, modalMode, editPersonId, modalContext, parentIds,
                   siblingIds, errors, textFields, lastMutation, dateEngine, cycleCheck,
                   layout, layoutBefore, storage>>

\* const gen = new Map(); for (const p of people) ...
CallAssignGenerations ==
    /\ run = NoRun
    /\ run' = Run("assignGenerations", FALSE, <<>>, {}, 1, <<>>, {}, <<>>, {})
    /\ UNCHANGED <<people, nextId, modalMode, editPersonId, modalContext, parentIds,
                   siblingIds, errors, textFields, lastMutation, dateEngine, cycleCheck,
                   layout, layoutBefore, storage>>

\* a call of compute that has not returned: k is the index in parents of the call it
\* makes next, max the greatest generation returned to it so far
Frame(id, parents, k, max) == [id |-> id, parents |-> parents, k |-> k, max |-> max]

\* compute returns v to the call that made it
returned(r, v) ==
    IF r.stack = <<>> THEN r
    ELSE [r EXCEPT !.stack[Len(r.stack)] =
                      [@ EXCEPT !.max = IF v > @ THEN v ELSE @, !.k = @ + 1]]

\* compute(id, visiting) up to its first call of compute, or to its return where it
\* makes none
callCompute(r, id, ps) ==
    IF has(r.gen, id) THEN returned(r, get(r.gen, id))
    ELSE IF id \in r.visiting
        THEN returned([r EXCEPT !.gen = set(@, id, 0), !.detected = @ \cup {id}], 0)
    ELSE [r EXCEPT !.visiting = @ \cup {id},
                   !.stack = Append(@, Frame(id, KeepIn(find(ps, id).parentIds, Ids(ps)),
                                             1, -1))]

\* the next call or return of assignGenerations
StepAssignGenerations ==
    /\ run.fn = "assignGenerations"
    /\ ~run.done
    /\ IF run.stack = <<>>
       THEN IF run.next > Len(people) THEN run' = [run EXCEPT !.done = TRUE]
            ELSE run' = callCompute([run EXCEPT !.next = @ + 1, !.visiting = {}],
                                    people[run.next].id, people)
       ELSE LET f == run.stack[Len(run.stack)]
                g == IF Len(f.parents) > 0 THEN f.max + 1 ELSE 0
            IN  IF f.k <= Len(f.parents)
                THEN run' = callCompute(run, f.parents[f.k], people)
                ELSE run' = returned([run EXCEPT !.gen = set(@, f.id, g),
                                                 !.visiting = @ \ {f.id},
                                                 !.stack = SubSeq(@, 1, Len(@) - 1)], g)
    /\ UNCHANGED <<people, nextId, modalMode, editPersonId, modalContext, parentIds,
                   siblingIds, errors, textFields, lastMutation, dateEngine, cycleCheck,
                   layout, layoutBefore, storage>>

StepTraverse == StepGetDescendantIds \/ StepGetAncestorIds \/ StepAssignGenerations

NextTraverse ==
    \/ \E id \in 1..NobodyId : CallGetDescendantIds(id)
    \/ \E id \in 1..NobodyId : CallGetAncestorIds(id)
    \/ CallAssignGenerations
    \/ StepGetDescendantIds
    \/ StepGetAncestorIds
    \/ StepAssignGenerations

SpecTraverse == InitTraverse /\ [][NextTraverse]_vars

\* JavaScript runs a call to its end: a call that can take a step takes it
SpecTraverseFair == SpecTraverse /\ WF_vars(StepTraverse)

\* what a call that has returned gives is what the functions of the model give
TraverseAgrees ==
    run.done =>
        /\ run.fn = "getDescendantIds" =>
              \E id \in 1..NobodyId : run.found = getDescendantIds(id, people)
        /\ run.fn = "getAncestorIds" =>
              \E id \in 1..NobodyId : run.found = AncestorsOf(people, id)
        /\ run.fn = "assignGenerations" => run.gen = assignGenerations(people)

\* two persons of the layout are in the same generation
SameGeneration(l, a, b) == l.positions[a].y = l.positions[b].y

\* |a.x - b.x| >= NODE_W + GAP_H
Apart(l, a, b) ==
    LET d == Minus(l.positions[a].x, l.positions[b].x)
    IN  ~Less(Rat(Abs(d.n), d.d), Num(NODE_W + GAP_H))

----------------------------------------------------------------------------
(* Claims *)

\* C1: after any sequence of saves, compound flows and deletes in which only offered
\* parents are ticked, no person is reachable from itself by following parentIds.
C1_ParentGraphAcyclic == Acyclic(people)

\* C2: in every graph reached through handleSavePerson and handleDeletePerson,
\* B is in A.siblingIds if and only if A is in B.siblingIds.
C2_SiblingsSymmetric == Symmetric(people)

C2_Witness ==
    /\ lastMutation.name = "save"
    /\ \E i, j \in 1..Len(people) :
          /\ i # j
          /\ Includes(people[i].siblingIds, people[j].id)
          /\ Includes(people[j].siblingIds, people[i].id)

\* C3: right after handleDeletePerson(X), X is not in the people list and no remaining
\* person's parentIds or siblingIds contains X.
C3_DeleteCascades ==
    lastMutation.name = "delete" =>
        /\ lastMutation.id \notin Ids(people)
        /\ \A i \in 1..Len(people) :
              /\ ~Includes(people[i].parentIds, lastMutation.id)
              /\ ~Includes(people[i].siblingIds, lastMutation.id)

C3_Witness ==
    /\ lastMutation.name = "delete"
    /\ lastMutation.referenced
    /\ people # <<>>

\* C4: every person, and the form's own parent list, has at most 2 entries in
\* parentIds in every state reached by toggles, saves, compound flows and deletes.
C4_AtMostTwoParents == AtMostTwoParents(people) /\ Len(parentIds) <= 2

C4_Witness ==
    /\ lastMutation.name = "save"
    /\ Len(people) = TreePeople + 1
    /\ \E i \in 1..Len(people) :
          /\ Len(people[i].parentIds) = 2
          /\ Cardinality(Ids(people) \ {people[i].id}) > 2

\* C5: every entry of every person's parentIds is the id of a person in the graph,
\* differs from the person's own id, and occurs at most once in the list.
C5_ParentsWellFormed == ParentsWellFormed(people)

C5_Witness ==
    /\ lastMutation.name = "delete"
    /\ lastMutation.referenced
    /\ \E i \in 1..Len(people) : Len(people[i].parentIds) > 0

\* C6: on any graph, cyclic or not, wouldCreateCycle(x, y) is true exactly when y = x
\* or x is reached from y by following parentIds (y is a descendant of x).
C6_CycleCheckExact ==
    cycleCheck.called =>
        (cycleCheck.result <=>
            \/ cycleCheck.candidateParentId = cycleCheck.personId
            \/ cycleCheck.personId \in AncestorsOf(people, cycleCheck.candidateParentId))

\* a descendant two or more generations down is recognised, in a graph that has a cycle
C6_Witness ==
    /\ cycleCheck.called
    /\ cycleCheck.result
    /\ cycleCheck.candidateParentId # cycleCheck.personId
    /\ cycleCheck.personId \notin ParentsOf(people, cycleCheck.candidateParentId)
    /\ ~Acyclic(people)

\* C7 as stated: with a year on one side and a full date on the other, no ordering
\* error is reported and the save is accepted, whatever the two values are.
C7_MixedPrecisionNotCompared ==
    MixedPrecision =>
        /\ ~OrderingErrorShown
        /\ NamePresent => SaveAccepted

\* C7 as the code has it: with a year on one side and a full date on the other, the
\* years are compared; the ordering error is reported exactly when birth's year is
\* greater than death's year, and the save is accepted otherwise.
C7_MixedPrecisionComparesYears ==
    MixedPrecision =>
        /\ OrderingErrorShown <=> Birth.value.year > Death.value.year
        /\ NamePresent => (SaveAccepted <=> Birth.value.year <= Death.value.year)

\* birth 1950, death 1949-01-01, a name given: rejected with the ordering error
C7_Witness ==
    /\ MixedPrecision
    /\ NamePresent
    /\ IsYearOnly(Birth.value)
    /\ Birth.value.year > Death.value.year
    /\ OrderingErrorShown
    /\ modalMode # "none"

\* C8: with the same precision on both sides the save is rejected exactly when birth
\* is later than death (years compared for two years, the dates for two full dates;
\* equal is accepted); with either date absent no ordering error is reported.
C8_SamePrecisionOrdered ==
    BothParsed =>
        /\ (~Birth.value.defined \/ ~Death.value.defined) => ~OrderingErrorShown
        /\ (IsYearOnly(Birth.value) /\ IsYearOnly(Death.value)) =>
              /\ OrderingErrorShown <=> Birth.value.year > Death.value.year
              /\ NamePresent => (SaveAccepted <=> Birth.value.year <= Death.value.year)
        /\ (IsFullDate(Birth.value) /\ IsFullDate(Death.value)) =>
              /\ OrderingErrorShown <=> Later(Ymd(Birth.value.date), Ymd(Death.value.date))
              /\ NamePresent =>
                    (SaveAccepted <=> ~Later(Ymd(Birth.value.date), Ymd(Death.value.date)))

\* birth 1950-06-01, death 1950-05-01, a name given: rejected with the ordering error
C8_Witness ==
    /\ BothParsed
    /\ NamePresent
    /\ IsFullDate(Birth.value)
    /\ IsFullDate(Death.value)
    /\ Birth.value.year = Death.value.year
    /\ Later(Ymd(Birth.value.date), Ymd(Death.value.date))
    /\ OrderingErrorShown
    /\ modalMode # "none"

\* C9: whatever the order of the people list, computeLayout gives every person the same
\* generation and the same x: the layout rendered after the list is reordered agrees
\* with the layout rendered before.
C9_LayoutOrderIndependent ==
    layoutBefore.rendered =>
        \A id \in Ids(people) :
            /\ layout.positions[id].y = layoutBefore.positions[id].y
            /\ layout.positions[id].x = layoutBefore.positions[id].x

\* C10: in the positions computeLayout returns for an acyclic person set, two distinct
\* persons of the same generation are at least NODE_W + GAP_H = 230 apart in x.
C10_SameGenerationApart ==
    layout.rendered =>
        \A a, b \in Ids(people) :
            (a # b /\ SameGeneration(layout, a, b)) => Apart(layout, a, b)

\* two children that pass 3 pulled towards their parents and resolveOverlaps then
\* pushed apart again, to exactly the minimum distance
C10_Witness ==
    /\ layout.rendered
    /\ \E a, b \in Ids(people) :
          /\ a # b
          /\ SameGeneration(layout, a, b)
          /\ layout.positions[a].y > 0
          /\ Minus(layout.positions[b].x, layout.positions[a].x) = Num(NODE_W + GAP_H)
          /\ layout.positions[a].x # Num(-115)

\* a and b have no parents and c has exactly the two of them as parents
TwoParentFamily(a, b, c) ==
    /\ Ids(people) = {a, b, c}
    /\ a # b
    /\ find(people, a).parentIds = <<>>
    /\ find(people, b).parentIds = <<>>
    /\ Len(find(people, c).parentIds) = 2
    /\ Range(find(people, c).parentIds) = {a, b}

\* (xA + xB) / 2 in the layout
Midpoint(l, a, b) == Times(Plus(l.positions[a].x, l.positions[b].x), 1, 2)

\* C11 as stated: for A and B without parents and C with parentIds = [A, B], A and B
\* are in generation 0, C is in generation 1, and C's x is the midpoint of A's and B's.
C11_ChildAtMidpoint ==
    layout.rendered =>
        \A a, b, c \in Ids(people) :
            TwoParentFamily(a, b, c) =>
                /\ layout.positions[a].y = 0
                /\ layout.positions[b].y = 0
                /\ layout.positions[c].y = GAP_V
                /\ layout.positions[c].x = Midpoint(layout, a, b)

\* C11 as the code has it: A and B are in generation 0 at x = 0 and x = 230, C is in
\* generation 1, and pass 3 leaves C at 0.3 of its own x (0) plus 0.7 of the midpoint:
\* C's x is 7/10 of the midpoint, 80.5.
C11_ChildPulledTowardsMidpoint ==
    layout.rendered =>
        \A a, b, c \in Ids(people) :
            TwoParentFamily(a, b, c) =>
                /\ layout.positions[a].y = 0
                /\ layout.positions[b].y = 0
                /\ layout.positions[c].y = GAP_V
                /\ {layout.positions[a].x, layout.positions[b].x} = {Num(0), Num(230)}
                /\ layout.positions[c].x = Times(Midpoint(layout, a, b), 7, 10)

\* the layout of A, B and their child C, listed child first
C11_Witness ==
    /\ layout.rendered
    /\ \E a, b, c \in Ids(people) :
          /\ TwoParentFamily(a, b, c)
          /\ people[1].id = c
          /\ layout.positions[c].x = Rat(161, 2)

\* C12: in an acyclic person set a person with no parent in the set (none at all, or
\* only dangling references) is in generation 0, any other person is in generation
\* 1 + the largest generation of its parents in the set, and y = generation * GAP_V.
C12_GenerationsByParents ==
    layout.rendered =>
        \A id \in Ids(people) :
            /\ layout.positions[id].y % GAP_V = 0
            /\ layout.positions[id].y \div GAP_V =
                  IF ValidParents(id) = {} THEN 0
                  ELSE 1 + (CHOOSE g \in {layout.positions[p].y \div GAP_V :
                                             p \in ValidParents(id)} :
                               \A p \in ValidParents(id) :
                                   layout.positions[p].y \div GAP_V <= g)

\* a chain of three under a root whose only parent reference is dangling: 0, 1, 2
C12_Witness ==
    /\ layout.rendered
    /\ \E a, b, c \in Ids(people) :
          /\ ParentsOf(people, a) = {MissingId}
          /\ ParentsOf(people, b) = {a}
          /\ ParentsOf(people, c) = {b}
          /\ layout.positions[a].y = 0
          /\ layout.positions[b].y = GAP_V
          /\ layout.positions[c].y = 2 * GAP_V

\* C13: computeLayout returns one edge from p to c for every pair where p is listed in
\* c.parentIds and both are persons of the set, and no other edge; for the empty set
\* it returns no positions and no edges.
C13_EdgesBetweenPresentPersons ==
    layout.rendered =>
        /\ {<<layout.edges[k].source, layout.edges[k].target>> :
               k \in 1..Len(layout.edges)} = ParentChildPairs
        /\ Len(layout.edges) = Cardinality(ParentChildPairs)
        /\ people = <<>> => (layout.positions = <<>> /\ layout.edges = <<>>)

\* a child with one parent in the set and one dangling reference: one edge
C13_Witness ==
    /\ layout.rendered
    /\ Len(layout.edges) = 1
    /\ \E c \in Ids(people) :
          /\ MissingId \in ParentsOf(people, c)
          /\ ValidParents(c) # {}

\* C14: the sibling list shown for a person holds the persons of its explicit
\* siblingIds and every other person that shares at least one parentIds entry with
\* it, and nobody else.
C14_SiblingsShown ==
    \A id \in Ids(people) :
        ShownFor(id) =>
            siblings = Range(find(people, id).siblingIds) \cup SharingAParent(id)

\* D and E are children of A, D is linked to F who shares no parent with D: the form
\* of D shows {E, F}
C14_Witness ==
    \E a, d, e, f \in Ids(people) :
        /\ Cardinality({a, d, e, f}) = 4
        /\ ParentsOf(people, d) = {a}
        /\ ParentsOf(people, e) = {a}
        /\ ParentsOf(people, f) = {}
        /\ Range(find(people, d).siblingIds) = {f}
        /\ Range(find(people, e).siblingIds) = {}
        /\ ShownFor(d)
        /\ siblings = {e, f}

\* C15: for every mutation a snapshot request whose body is the document as it was
\* before the mutation has been initiated, and it was initiated before any save
\* request whose body is the document after that mutation.
C15_SnapshotBeforeSave ==
    \A k \in Mutations :
        \E i \in Snapshots :
            /\ sent[i].cause = k
            /\ sent[i].body = events[k].before
            /\ \A j \in SavesOf(k) : i < j

\* a person was added to a loaded tree: the snapshot of the tree without the person,
\* then the save of the tree with the person
C15_Witness ==
    \E k \in Mutations, i \in Snapshots :
        /\ events[k].op = "save"
        /\ events[k].before.people # <<>>
        /\ sent[i].cause = k
        /\ sent[i].body = events[k].before
        /\ \E j \in SavesOf(k) : i < j

\* C16: every snapshot request the server has handled stays stored with its own
\* content, whatever requests are handled after it, in the same second or later.
C16_SnapshotsNeverOverwritten ==
    \A i \in Snapshots \cap handled :
        \E n \in DOMAIN snapshots : snapshots[n] = sent[i].body

\* C17: once the application is initialized and every save request it has initiated
\* has been handled, in whatever order, the main file holds the in-memory document.
C17_MainFileHoldsLatest ==
    (initialized /\ ~effectPending /\ Saves \subseteq handled) => mainFile = data

\* C18: the in-memory people list is what the user's mutations and the load give,
\* whatever became of the writes, and a failed write leaves the next mutation possible.
C18_WritesNeverReachTheGraph ==
    /\ people = Replay(Len(events))
    /\ (failed # {} /\ Len(events) < MaxEvents /\ nextId <= MaxStoreIds)
          => ENABLED HandleSavePerson(TRUE)

\* a write failed and a person added after that is in the list
C18_Witness ==
    \E f \in failed, k \in Mutations :
        /\ k > f.after
        /\ events[k].op = "save"
        /\ events[k].person.id \in Ids(people)

\* C20: validateFamilyData accepts a document exactly when version is 1, updatedAt is
\* a string, people is an array and every person has a string id, a string firstName
\* and an array parentIds; an accepted document is left as it was, but for
\* siblingIds = [] on every person that had no siblingIds.
C20_ValidatesAndMigrates ==
    validated.called =>
        /\ validated.ok <=> Acceptable(validated.input)
        /\ validated.ok =>
              LET in == validated.input[2]
                  out == validated.output[2]
              IN  /\ validated.output[1] = "object"
                  /\ DOMAIN out = DOMAIN in
                  /\ out["version"] = in["version"]
                  /\ out["updatedAt"] = in["updatedAt"]
                  /\ out["people"][1] = "array"
                  /\ Len(out["people"][2]) = Len(in["people"][2])
                  /\ \A i \in 1..Len(in["people"][2]) :
                        Migrated(in["people"][2][i], out["people"][2][i])

\* an accepted document of two persons, one with siblingIds and one without
C20_Witness ==
    /\ validated.called
    /\ validated.ok
    /\ \E i, j \in 1..Len(validated.input[2]["people"][2]) :
          /\ "siblingIds" \in DOMAIN validated.input[2]["people"][2][i][2]
          /\ "siblingIds" \notin DOMAIN validated.input[2]["people"][2][j][2]
          /\ validated.output[2]["people"][2][j][2]["siblingIds"] = Arr(<<>>)

\* C19: an import whose file cannot be parsed or whose document is not acceptable
\* leaves the people list, updatedAt, the export baseline and the selection as they
\* were.
C19_RejectedImportChangesNothing ==
    [][(importing.picked /\ ~importing'.picked /\ ~Importable(importing))
          => UNCHANGED <<people, updatedAt, baselineHash, selectedId>>]_vars

\* a document was rejected while a person was selected and the people list differed
\* from the baseline; all three are still there
C19_Witness ==
    /\ validated.called
    /\ ~validated.ok
    /\ ~importing.picked
    /\ people # <<>>
    /\ selectedId # NoId
    /\ baselineHash # people

\* C21: importing the file an export wrote gives a people list with the same persons,
\* ids, parentIds and siblingIds as the list that was exported.
C21_ExportImportRoundTrip ==
    [][(importing.picked /\ ~importing'.picked /\ importing = downloaded.file)
          => SameGraph(people', downloaded.people)]_vars

\* a family with a parent link and a sibling link was exported, a person was deleted,
\* and the import of the exported file brought the family back
C21_Witness ==
    /\ events # <<>>
    /\ events[Len(events)].op = "import"
    /\ validated.input = downloaded.file.value
    /\ people = downloaded.people
    /\ events[Len(events)].before.people # people
    /\ \E i, j \in 1..Len(people) :
          people[i].parentIds # <<>> /\ people[j].siblingIds # <<>>

\* C22: once an export has been made, the dirty indicator is true exactly when the
\* current people list differs from the people list of the last export.
C22_DirtySinceLastExport ==
    downloaded.file.picked => (dirty <=> people # downloaded.people)

\* C23: a click on a submit button with texts that fail the validation saves nothing:
\* the graph, its time stamp and the requests sent stay as they were, no auto-save is
\* queued, and the form stays open on the same person with the same context, so no
\* follow-up add form is opened.
C23_FailedValidationBlocksSave ==
    [][(textFields' # textFields /\ textFields' # NoText /\ FailsValidation')
          => /\ UNCHANGED <<people, nextId, updatedAt, sent, pending, effectPending, events,
                            lastMutation>>
             /\ UNCHANGED <<modalMode, editPersonId, modalContext, parentIds, siblingIds>>
             /\ errors' # <<>>]_vars

\* "+ Add Sibling" was clicked in the edit form with a birth after the death: the form
\* is still the edit form and shows the error
C23_Witness ==
    /\ modalMode = "edit"
    /\ textFields = Text(Ann, Year1950, Year1949)
    /\ errors # <<>>
    /\ events # <<>>

\* C24: the messages of a click are collected, not cut at the first: there is one
\* "First name is required" exactly when the name is blank, one "Birth: ..." exactly
\* when the birth text does not parse, one "Death: ..." exactly when the death text
\* does not parse, and besides these at most the message of the ordering.
C24_EveryProblemReported ==
    textFields # NoText =>
        LET nameErrs == {k \in 1..Len(errors) : errors[k] = FormError("", FirstNameRequired)}
            birthErrs == {k \in 1..Len(errors) : errors[k].field = "Birth"}
            deathErrs == {k \in 1..Len(errors) : errors[k].field = "Death"}
            orderErrs == {k \in 1..Len(errors) : errors[k] = FormError("", BirthAfterDeath)}
        IN  /\ Cardinality(nameErrs) = (IF NamePresent THEN 0 ELSE 1)
            /\ Cardinality(birthErrs) = (IF Birth.error = NoError THEN 0 ELSE 1)
            /\ Cardinality(deathErrs) = (IF Death.error = NoError THEN 0 ELSE 1)
            /\ \A k \in birthErrs : errors[k] = FormError("Birth", Birth.error)
            /\ \A k \in deathErrs : errors[k] = FormError("Death", Death.error)
            /\ 1..Len(errors) = nameErrs \cup birthErrs \cup deathErrs \cup orderErrs

\* a blank name, a birth and a death that do not parse: three messages
C24_Witness ==
    /\ ~NamePresent
    /\ textFields # NoText
    /\ Birth.error # NoError
    /\ Death.error # NoError
    /\ Len(errors) = 3

\* C25: a blank date text gives no date and no error, digits give a year, a text of the
\* form NNNN-NN-NN gives a full date when it names a day of the calendar and a parse
\* error when it does not (month 13, 30 February), anything else gives a parse error;
\* a parse error is shown and blocks the save.
C25_DateGrammar ==
    textFields # NoText =>
        /\ FollowsGrammar(textFields.birthInput, Birth)
        /\ FollowsGrammar(textFields.deathInput, Death)
        /\ (Birth.error # NoError \/ Death.error # NoError) => errors # <<>>

\* C26: "Create New Parent" opens its add form only from an edit form that lists fewer
\* than two parents, and the save of the new person P that completes the flow from T
\* leaves P in the graph and T with its previous parent list and P appended to it, at
\* most two parents in all.
C26_CreateParentAppends ==
    [][/\ (modalContext'.linkAsParentOf # NoId /\ modalContext.linkAsParentOf = NoId)
             => Len(parentIds) < 2
       /\ (modalMode = "add" /\ modalContext.linkAsParentOf # NoId /\ nextId' # nextId)
             => /\ nextId \in Ids(people')
                /\ modalContext.linkAsParentOf \in Ids(people)
                /\ find(people', modalContext.linkAsParentOf).parentIds
                      = Append(find(people, modalContext.linkAsParentOf).parentIds, nextId)
                /\ Len(find(people', modalContext.linkAsParentOf).parentIds) <= 2]_vars

\* person 2 had person 1 as parent and has got person 3, made after it, as second
C26_Witness ==
    /\ modalMode = "none"
    /\ 2 \in Ids(people)
    /\ find(people, 2).parentIds = <<1, 3>>
    /\ 3 \in Ids(people)

\* C27: when "Add Sibling" is clicked in the edit form of T, the parent list preset for
\* the new person is T's parentIds as the save of that click stores it, which is the
\* selection in T's form.
C27_SiblingPresetIsSavedParents ==
    [][(modalContext'.linkAsSiblingOf # NoId /\ modalContext.linkAsSiblingOf = NoId)
          => modalContext'.presetParentIds
                = find(people', modalContext'.linkAsSiblingOf).parentIds]_vars

\* a click has saved the person of the form: "Save" has closed the modal, or a compound
\* button of the edit form has opened its add form
SaveStep ==
    /\ modalMode # "none"
    /\ textFields' # NoText
    /\ lastMutation'.name = "save"
    /\ modalMode' = "none" \/ (modalMode = "edit" /\ modalMode' = "add")

\* C28: when handleSavePerson has saved P with the sibling list S (the list of the form
\* and the target of linkAsSiblingOf), every other person Q lists P as sibling exactly
\* when Q is in S, P lists exactly S, and the sibling links between two persons other
\* than P are what they were.
C28_SiblingLinksFollowSave ==
    [][SaveStep =>
          LET P == personId
              S == Range(siblingIds) \cup
                   (IF modalContext.linkAsSiblingOf # NoId
                    THEN {modalContext.linkAsSiblingOf} ELSE {})
          IN  /\ Range(find(people', P).siblingIds) = S
              /\ \A Q \in Ids(people') \ {P} :
                    /\ Includes(find(people', Q).siblingIds, P) <=> Q \in S
                    /\ Q \in Ids(people)
                    /\ \A R \in Ids(people') \ {P} :
                          Includes(find(people', Q).siblingIds, R)
                             <=> Includes(find(people, Q).siblingIds, R)]_vars

\* person 3 was saved from the add form "Add Sibling" of person 1 opened, with person 2
\* ticked as well: both list 3, and 1 and 2 are no siblings of each other
C28_Witness ==
    /\ modalMode = "none"
    /\ Ids(people) = {1, 2, 3}
    /\ Range(find(people, 3).siblingIds) = {1, 2}
    /\ find(people, 1).siblingIds = <<3>>
    /\ find(people, 2).siblingIds = <<3>>

Linked(ps, n, ctx) ==
    /\ ctx.linkAsParentOf # NoId =>
          Includes(find(ps, ctx.linkAsParentOf).parentIds, n)
    /\ ctx.linkAsSiblingOf # NoId =>
          /\ Includes(find(ps, ctx.linkAsSiblingOf).siblingIds, n)
          /\ Includes(find(ps, n).siblingIds, ctx.linkAsSiblingOf)

\* the documents that have been App's data so far
AdoptedGraphs ==
    {data} \cup {events[k].before : k \in 1..Len(events)}
           \cup {events[k].after : k \in 1..Len(events)}

\* C30: in the "Create New Parent" and "Add Sibling" flows the new person enters the
\* graph together with its link: the graph adopted by the save has the link, the
\* requests of that click carry graphs without the new person or with the link, and no
\* request ever carries a document that was not the in-memory graph at some time.
C30_InsertedWithItsLink ==
    /\ [](\A i \in 1..Len(sent) : sent[i].body \in AdoptedGraphs)
    /\ [][(modalMode = "add" /\ nextId' # nextId /\ modalContext # NoContext)
             => /\ nextId \in Ids(people')
                /\ Linked(people', nextId, modalContext)
                /\ events' = Append(events, events'[Len(events')])
                /\ events'[Len(events')].before.people = people
                /\ events'[Len(events')].after.people = people'
                /\ \A i \in (Len(sent) + 1)..Len(sent') :
                      \/ nextId \notin Ids(sent'[i].body.people)
                      \/ Linked(sent'[i].body.people, nextId, modalContext)]_vars

\* person 3 was made as sibling of person 2 and the auto-save of that graph is sent:
\* the snapshot of the click holds the graph before, the save the graph with the links
C30_Witness ==
    /\ modalMode = "none"
    /\ 3 \in Ids(people)
    /\ Includes(find(people, 2).siblingIds, 3)
    /\ Includes(find(people, 3).siblingIds, 2)
    /\ \E i, j \in 1..Len(sent) :
          /\ i < j
          /\ sent[i].url = SnapshotUrl
          /\ 3 \notin Ids(sent[i].body.people)
          /\ sent[j].url = DataUrl
          /\ sent[j].body.people = people

\* C31: every call of getDescendantIds, getAncestorIds and assignGenerations returns,
\* on lists with a self-parent, with cycles of two and three persons and with parent
\* ids of nobody as on any other.
C31_TraversalsTerminate == (run.fn # "none") ~> run.done

\* assignGenerations has returned on a list with a cycle through all three persons,
\* one of whom also lists the id of nobody
C31_Witness ==
    /\ run.done
    /\ run.fn = "assignGenerations"
    /\ run.detected # {}
    /\ \A id \in 1..TraversePeople : AncestorsOf(people, id) = 1..NobodyId

\* C32: when assignGenerations has returned, every person at which compute met a cycle
\* (an id that was in visiting when compute was called for it) has generation 0 in the
\* map, and every person of the list has a generation in the map.
C32_CycleNodeGetsZero ==
    (run.done /\ run.fn = "assignGenerations") =>
        /\ \A id \in run.detected : get(run.gen, id) = 0
        /\ \A id \in Ids(people) : has(run.gen, id)

\* the requests the step initiates, as indices of sent'
Initiated == (Len(sent) + 1)..Len(sent')

\* C33: every save write is initiated in a state where initialized is true, and a save
\* or delete made while the startup load is pending initiates a snapshot write, with
\* the graph before it, and nothing else.
C33_NoSaveBeforeLoad ==
    [][/\ \A i \in Initiated : sent'[i].url = DataUrl => initialized
       /\ (~initialized /\ Len(events') > Len(events)
                        /\ events'[Len(events')].op \in {"save", "delete"})
             => /\ Len(sent') = Len(sent) + 1
                /\ sent'[Len(sent')].url = SnapshotUrl
                /\ sent'[Len(sent')].body = data]_vars

\* the load is still pending, a person was added and deleted again: two snapshots have
\* been sent and no save
C33_Witness ==
    /\ loading
    /\ ~initialized
    /\ Len(events) = 2
    /\ Cardinality(Snapshots) = 2
    /\ Saves = {}

\* C34: when the startup load resolves, with a document or with none, every person the
\* user has saved and not deleted while the load was pending is still in the people
\* list, as saved.
C34_EditsSurviveTheLoad ==
    [][(loading /\ ~loading')
          => \A i \in 1..Len(people) : \E j \in 1..Len(people') : people'[j] = people[i]]_vars

\* C35: after a startup load that gave no document, and as long as the user has made no
\* mutation and no import, no save write has been initiated.
C35_NoSaveAfterAbsentLoad ==
    (Len(events) = 1 /\ events[1].op = "load" /\ events[1].doc = NoData)
        => Saves = {}

====
